---- MODULE Spec2Model ----
(***************************************************************************)
(* Model of the ErgoScan measurement refinement pipeline                   *)
(* (normalization/data_normalizer.py, class DataNormalizer) and of its two *)
(* drivers: the scanning session of normalization/scan_processor.py and    *)
(* the calibration capture loop of calibration_integration.py.             *)
(*                                                                         *)
(* Number representation.  Python floats are modelled in fixed point:      *)
(*   value                         tenths            (1700 is 170.0)       *)
(*   confidence, landmarks_quality tenths            (9 is 0.9)            *)
(*   depth, reference_depth        tenths of a metre (20 is 2.0)           *)
(*   scaling factors               tenths            (12 is 1.2)           *)
(*   quality scores                thousandths       (10000 is 10.0)       *)
(*   outlier_threshold             a fraction num/den (5/2 is 2.5)         *)
(*   landmark coordinates          thousandths       (500 is 0.5)          *)
(*   wall-clock times              half seconds      (20 is 10 s)          *)
(* A quotient is rounded down to the resolution of its result.  Where the  *)
(* code only compares a quotient with a bound, the comparison is made on   *)
(* the cross-multiplied integers, so it is exact.                          *)
(***************************************************************************)
EXTENDS Integers, Sequences, FiniteSets, TLC

VARIABLES
    self,                  \* the DataNormalizer: its constructor arguments and calibration_data
    user_id,               \* argument of process_measurements
    measurements,          \* argument of process_measurements (the caller's list)
    pc,                    \* position inside process_measurements
    calls,                 \* the methods process_measurements has called so far, with their argument
    filtered_measurements, \* locals of process_measurements ...
    cleaned_measurements,
    smoothed_measurements,
    depth_corrected,
    scaled_measurements,
    body_profile,
    validation,            \* [is_valid, issues] returned by validate_measurements
    quality_score,
    processing_steps,
    stdout,                \* what the call has printed
    returned,  \* the (body_profile, report) pair, once returned
    landmarks,             \* arguments of normalize_landmarks ...
    reference_points,
    target_height,
    center_point,
    centered_coords,       \* locals of normalize_landmarks ...
    rotated_coords,
    scaled_coords,
    normalized_landmarks,  \* what normalize_landmarks returned
    wall_time,             \* time.time(), in half seconds
    session_pc,            \* ErgoScanProcessor: "ready" between calls, or the method it is in
    scanning_active,       \* fields of the ErgoScanProcessor ...
    measurement_buffer,
    frame_count,
    collected_active,      \* history: scanning_active when each buffered point was appended
    session_returned,      \* what the last end_scanning_session returned
    capture_pc,            \* BodyCalibrationSystem: position of the capture-loop thread
    window,                \* the Tk root: "open", "closing" (cleanup ran) or "destroyed"
    running,               \* fields of the BodyCalibrationSystem ...
    cap,
    current_pose_index,
    visible_start_time,
    countdown_start_time,
    calibration_data,      \* the names of the poses captured
    control_button,        \* [state, command] of the control button
    results,               \* what the pose detector found in the frame last processed
    captures,              \* history: one record per capture_pose call
    processed              \* history: the arguments of process_calibration_data

vars == <<self, user_id, measurements, pc, calls, filtered_measurements,
          cleaned_measurements, smoothed_measurements, depth_corrected,
          scaled_measurements, body_profile, validation, quality_score,
          processing_steps, stdout, returned, landmarks, reference_points,
          target_height, center_point, centered_coords, rotated_coords, scaled_coords,
          normalized_landmarks, wall_time, session_pc, scanning_active, measurement_buffer,
          frame_count, collected_active, session_returned, capture_pc, window, running,
          cap, current_pose_index, visible_start_time, countdown_start_time,
          calibration_data, control_button, results, captures, processed>>

landmark_vars == <<landmarks, reference_points, target_height, center_point,
                   centered_coords, rotated_coords, scaled_coords, normalized_landmarks>>

session_vars == <<session_pc, scanning_active, measurement_buffer, frame_count,
                  collected_active, session_returned>>

capture_vars == <<capture_pc, window, running, cap, current_pose_index, visible_start_time,
                  countdown_start_time, calibration_data, control_button, results,
                  captures, processed>>

None == [none |-> TRUE]

\* None in a field that holds a time: time.time() is never 0
NoTime == 0

\* no ErgoScanProcessor takes part in the behaviour
NoProcessor ==
    /\ session_pc = ""
    /\ scanning_active = FALSE
    /\ measurement_buffer = <<>>
    /\ frame_count = 0
    /\ collected_active = <<>>
    /\ session_returned = None

\* no BodyCalibrationSystem takes part in the behaviour
NoCalibrationSystem ==
    /\ capture_pc = ""
    /\ window = ""
    /\ running = FALSE
    /\ cap = "none"
    /\ current_pose_index = 0
    /\ visible_start_time = NoTime
    /\ countdown_start_time = NoTime
    /\ calibration_data = {}
    /\ control_button = None
    /\ results = None
    /\ captures = <<>>
    /\ processed = <<>>

----------------------------------------------------------------------------
(* Python and numpy primitives *)

Min(a, b) == IF a <= b THEN a ELSE b

Max(a, b) == IF a >= b THEN a ELSE b

RECURSIVE SumSeq(_)
SumSeq(s) == IF s = <<>> THEN 0 ELSE s[1] + SumSeq(Tail(s))

RECURSIVE Flatten(_)
Flatten(ss) == IF ss = <<>> THEN <<>> ELSE ss[1] \o Flatten(Tail(ss))

\* d.get(k, default)
Get(d, k, default) == IF k \in DOMAIN d THEN d[k] ELSE default

\* np.mean(values); of an empty list numpy gives nan with a warning, modelled as 0
NpMean(values) == IF values = <<>> THEN 0 ELSE SumSeq(values) \div Len(values)

\* np.average(values, weights=weights) raises ZeroDivisionError when the weights sum to zero
NpAverageRaises(weights) == SumSeq(weights) = 0

NpAverage(values, weights) ==
    IF SumSeq(weights) = 0 THEN 0
    ELSE SumSeq([i \in 1..Len(values) |-> values[i] * weights[i]]) \div SumSeq(weights)

RECURSIVE IsqrtIter(_, _, _)
IsqrtIter(x, lo, hi) ==
    IF lo >= hi THEN lo
    ELSE LET mid == (lo + hi + 1) \div 2
         IN  IF mid * mid <= x THEN IsqrtIter(x, mid, hi) ELSE IsqrtIter(x, lo, mid - 1)

\* floor of the square root
Isqrt(x) == IsqrtIter(x, 0, 46340)

----------------------------------------------------------------------------
(* Grouping by measurement_type, as every stage does with a dict of lists *)

RECURSIVE grouped_keys(_)
grouped_keys(ms) ==
    IF ms = <<>> THEN <<>>
    ELSE LET front == grouped_keys(SubSeq(ms, 1, Len(ms) - 1))
             t == ms[Len(ms)].measurement_type
         IN  IF \E i \in 1..Len(front) : front[i] = t THEN front ELSE Append(front, t)

grouped(ms, t) == SelectSeq(ms, LAMBDA m : m.measurement_type = t)

\* [m.value for m in group]
Values(group) == [i \in 1..Len(group) |-> group[i].value]

\* [m.confidence * m.landmarks_quality for m in group]
Weights(group) ==
    [i \in 1..Len(group) |-> group[i].confidence * group[i].landmarks_quality]

----------------------------------------------------------------------------
(* Step 1: filter_by_confidence *)

\* variant: the threshold itself is rejected
filter_by_confidence_exclusive(min_confidence, ms) ==
    SelectSeq(ms, LAMBDA m : m.confidence > min_confidence)

filter_by_confidence(min_confidence, ms) ==
    SelectSeq(ms, LAMBDA m : m.confidence >= min_confidence)

----------------------------------------------------------------------------
(* Step 2: remove_outliers *)

\* n * sum(x^2) - sum(x)^2, which is n^2 times the population variance
VarTimesN2(values) ==
    Len(values) * SumSeq([i \in 1..Len(values) |-> values[i] * values[i]])
        - SumSeq(values) * SumSeq(values)

\* variant: the sample standard deviation (ddof=1) in place of the population one
ZScoreWithinSampleStd(values, i, threshold) ==
    LET n == Len(values)
        dev == n * values[i] - SumSeq(values)
    IN  /\ VarTimesN2(values) > 0
        /\ threshold.den * threshold.den * dev * dev * (n - 1)
              <= threshold.num * threshold.num * VarTimesN2(values) * n

\* z_scores[i] <= self.outlier_threshold, where z_scores = np.abs(stats.zscore(values)).
\* z = (x - mean) / std with the population std; a zero std gives nan, and
\* nan <= threshold is False.
ZScoreWithin(values, i, threshold) ==
    LET n == Len(values)
        dev == n * values[i] - SumSeq(values)
    IN  /\ VarTimesN2(values) > 0
        /\ threshold.den * threshold.den * dev * dev
              <= threshold.num * threshold.num * VarTimesN2(values)

\* the loop "for i, measurement in enumerate(group)" over the first k members
RECURSIVE KeptWithin(_, _, _)
KeptWithin(group, k, threshold) ==
    IF k = 0 THEN <<>>
    ELSE IF ZScoreWithin(Values(group), k, threshold)
         THEN Append(KeptWithin(group, k - 1, threshold), group[k])
         ELSE KeptWithin(group, k - 1, threshold)

\* variant: groups of exactly 3 are passed through as well
RemoveGroupOutliersAbove3(group, threshold) ==
    IF Len(group) <= 3 THEN group
    ELSE KeptWithin(group, Len(group), threshold)

RemoveGroupOutliers(group, threshold) ==
    IF Len(group) < 3 THEN group
    ELSE KeptWithin(group, Len(group), threshold)

remove_outliers(slf, ms) ==
    IF Len(ms) < slf.min_samples THEN ms
    ELSE Flatten([k \in 1..Len(grouped_keys(ms)) |->
                     RemoveGroupOutliers(grouped(ms, grouped_keys(ms)[k]),
                                         slf.outlier_threshold)])

\* one "Removed outlier" line is printed per dropped point
RemovedOutlierLines(slf, ms) ==
    [i \in 1..(Len(ms) - Len(remove_outliers(slf, ms))) |-> "Removed outlier"]

----------------------------------------------------------------------------
(* Step 3: apply_temporal_smoothing *)

\* list.sort(key=lambda m: m.timestamp): stable
RECURSIVE SortByTimestamp(_)
SortByTimestamp(group) ==
    IF group = <<>> THEN <<>>
    ELSE LET front == SortByTimestamp(SubSeq(group, 1, Len(group) - 1))
             m == group[Len(group)]
             k == Cardinality({i \in 1..Len(front) : front[i].timestamp <= m.timestamp})
         IN  SubSeq(front, 1, k) \o <<m>> \o SubSeq(front, k + 1, Len(front))

\* variant: the window is 5 wide whatever the size of the group
WindowOfFive(group, i) ==
    SubSeq(group, Max(1, i - 5 \div 2), Min(Len(group), i + 5 \div 2))

\* group[start_idx:end_idx] around the (1-based) index i
Window(group, i) ==
    LET window_size == Min(5, Len(group))
    IN  SubSeq(group, Max(1, i - window_size \div 2), Min(Len(group), i + window_size \div 2))

\* variant: no guard on the weight sum
UseWeightedAlways(weights) == TRUE

\* "if sum(weights) > 0"
UseWeighted(weights) == SumSeq(weights) > 0

\* variant: the weighted sum is divided by the number of points, not by the weight
\* sum (a weight of 1.0 is 100 here)
WeightedValueUnnormalized(points) ==
    IF UseWeighted(Weights(points))
    THEN SumSeq([i \in 1..Len(points) |-> points[i].value * Weights(points)[i]])
            \div (100 * Len(points))
    ELSE NpMean(Values(points))

\* weighted average of a list of points, with the unweighted fallback
WeightedValue(points) ==
    IF UseWeighted(Weights(points))
    THEN NpAverage(Values(points), Weights(points))
    ELSE NpMean(Values(points))

WeightedValueRaises(points) ==
    UseWeighted(Weights(points)) /\ NpAverageRaises(Weights(points))

\* variant: a group of fewer than 3 is left out of the result
SmoothGroupSkippingSmall(group) ==
    IF Len(group) < 3 THEN <<>>
    ELSE LET sorted == SortByTimestamp(group)
         IN  [i \in 1..Len(sorted) |->
                 [sorted[i] EXCEPT !.value = WeightedValue(Window(sorted, i))]]

\* variant: the emitted point is built on the first point of its window
SmoothGroupOnWindowStart(group) ==
    IF Len(group) < 3 THEN group
    ELSE LET sorted == SortByTimestamp(group)
         IN  [i \in 1..Len(sorted) |->
                 [Window(sorted, i)[1] EXCEPT !.value = WeightedValue(Window(sorted, i))]]

SmoothGroup(group) ==
    IF Len(group) < 3 THEN group
    ELSE LET sorted == SortByTimestamp(group)
         IN  [i \in 1..Len(sorted) |->
                 [sorted[i] EXCEPT !.value = WeightedValue(Window(sorted, i))]]

\* variant: group.sort() replaced by a sort of the list passed in
InputSortedInPlace(ms) == IF Len(ms) < 3 THEN ms ELSE SortByTimestamp(ms)

\* the list passed in, after the call: group.sort() sorts a list of the local dict
\* `grouped`, filled by the grouping loop, and the list passed in is only iterated
InputAfterSmoothing(ms) == ms

apply_temporal_smoothing(ms) ==
    IF Len(ms) < 3 THEN ms
    ELSE Flatten([k \in 1..Len(grouped_keys(ms)) |->
                     SmoothGroup(grouped(ms, grouped_keys(ms)[k]))])

SmoothingRaises(ms) ==
    /\ Len(ms) >= 3
    /\ \E k \in 1..Len(grouped_keys(ms)) :
          LET group == grouped(ms, grouped_keys(ms)[k])
          IN  /\ Len(group) >= 3
              /\ \E i \in 1..Len(group) :
                    WeightedValueRaises(Window(SortByTimestamp(group), i))

----------------------------------------------------------------------------
(* Steps 4 and 5: apply_depth_correction, apply_calibration_scaling *)

\* "if not self.calibration_data": an empty dict
\* variant: the guard on an empty table is missing
NoCalibrationUnguarded(slf) == FALSE

\* "if not self.calibration_data"
NoCalibration(slf) == DOMAIN slf.calibration_data = {}

\* variant: the ratio is taken the other way round
DepthCorrectedInverse(m, reference_depth) ==
    [m EXCEPT !.value = (m.value * m.depth) \div reference_depth]

\* measurement.value * (reference_depth / measurement.depth)
DepthCorrected(m, reference_depth) ==
    [m EXCEPT !.value = IF m.depth = 0 THEN 0 ELSE (m.value * reference_depth) \div m.depth]

apply_depth_correction(slf, ms) ==
    IF NoCalibration(slf) THEN ms
    ELSE LET reference_depth == Get(slf.calibration_data, "reference_depth", 20)
         IN  [i \in 1..Len(ms) |-> DepthCorrected(ms[i], reference_depth)]

\* reference_depth / measurement.depth raises ZeroDivisionError on a zero depth
DepthCorrectionRaises(slf, ms) ==
    ~NoCalibration(slf) /\ \E i \in 1..Len(ms) : ms[i].depth = 0

DepthWarning(slf) ==
    IF NoCalibration(slf)
    THEN <<"Warning: No calibration data available for depth correction">>
    ELSE <<>>

\* variant: a type without a factor is scaled by 0
ScaledUnknownAsZero(m, scaling_factors) ==
    [m EXCEPT !.value = (m.value * Get(scaling_factors, m.measurement_type, 0)) \div 10]

\* measurement.value * scaling_factors.get(measurement.measurement_type, 1.0)
Scaled(m, scaling_factors) ==
    [m EXCEPT !.value = (m.value * Get(scaling_factors, m.measurement_type, 10)) \div 10]

EmptyDict == [k \in {} |-> 0]

apply_calibration_scaling(slf, ms) ==
    IF NoCalibration(slf) THEN ms
    ELSE LET scaling_factors == Get(slf.calibration_data, "scaling_factors", EmptyDict)
         IN  [i \in 1..Len(ms) |-> Scaled(ms[i], scaling_factors)]

ScalingWarning(slf) ==
    IF NoCalibration(slf)
    THEN <<"Warning: No calibration data available for scaling">>
    ELSE <<>>

----------------------------------------------------------------------------
(* calculate_measurement_statistics *)

\* mean and std in tenths, cv = std / mean in thousandths (0 unless mean > 0);
\* total is the exact sum behind mean, kept for exact comparisons
GroupStatistics(values) ==
    [mean  |-> NpMean(values),
     std   |-> Isqrt(VarTimesN2(values)) \div Len(values),
     count |-> Len(values),
     cv    |-> IF SumSeq(values) > 0
               THEN (Isqrt(VarTimesN2(values)) * 1000) \div SumSeq(values)
               ELSE 0,
     total |-> SumSeq(values)]

calculate_measurement_statistics(ms) ==
    [t \in {ms[i].measurement_type : i \in 1..Len(ms)} |-> GroupStatistics(Values(grouped(ms, t)))]

----------------------------------------------------------------------------
(* calculate_quality_score; the body_profile argument is never read *)

expected_measurements ==
    <<"height", "shoulder_width", "torso_length", "arm_length", "leg_length", "hip_width">>

\* max(0, 10 - cv * 100)
ConsistencyScore(stat) == Max(0, 10000 - stat.cv * 100)

ConsistencyScores(ms) ==
    LET stats == calculate_measurement_statistics(ms)
        qualifying == SelectSeq(grouped_keys(ms),
                                LAMBDA t : stats[t].count > 1 /\ stats[t].total > 0)
    IN  [k \in 1..Len(qualifying) |-> ConsistencyScore(stats[qualifying[k]])]

\* np.average(scores, weights=[0.2, 0.3, 0.3, 0.2])
FinalScore(ms) ==
    LET sample_score == Min(10000, (Len(ms) * 10000) \div 50)
        consistency_scores == ConsistencyScores(ms)
        avg_consistency == IF consistency_scores # <<>> THEN NpMean(consistency_scores) ELSE 5000
        avg_confidence ==
            (SumSeq([i \in 1..Len(ms) |-> ms[i].confidence]) * 100) \div Len(ms)
        avg_landmarks_quality ==
            (SumSeq([i \in 1..Len(ms) |-> ms[i].landmarks_quality]) * 100) \div Len(ms)
        detection_score == ((avg_confidence + avg_landmarks_quality) * 10) \div 2
        actual_measurements == {ms[i].measurement_type : i \in 1..Len(ms)}
        completeness_score ==
            (Cardinality(actual_measurements) * 10000) \div Len(expected_measurements)
    IN  (2 * sample_score + 3 * avg_consistency + 3 * detection_score + 2 * completeness_score)
            \div 10

\* variant: only the lower bound is enforced
ClampLowerOnly(final_score) == Max(0, final_score)

\* min(10.0, max(0.0, final_score))
Clamp(final_score) == Min(10000, Max(0, final_score))

calculate_quality_score(ms) ==
    IF ms = <<>> THEN 0 ELSE Clamp(FinalScore(ms))

----------------------------------------------------------------------------
(* Step 6: create_body_profile *)

\* variant: the weight is the confidence alone
final_measurements_by_confidence(ms) ==
    [t \in {ms[i].measurement_type : i \in 1..Len(ms)} |->
        LET group == grouped(ms, t)
            weights == [i \in 1..Len(group) |-> group[i].confidence]
        IN  IF SumSeq(weights) > 0 THEN NpAverage(Values(group), weights)
            ELSE NpMean(Values(group))]

final_measurements(ms) ==
    [t \in {ms[i].measurement_type : i \in 1..Len(ms)} |-> WeightedValue(grouped(ms, t))]

\* variant: the default of scale_factor, 1.0, used for a missing measurement
ProfileFieldDefaultOne(final, field) == Get(final, field, 10)

\* final_measurements.get(field, 0.0)
ProfileField(final, field) == Get(final, field, 0)

create_body_profile(slf, ms, user, now) ==
    LET final == final_measurements(ms)
    IN  [user_id             |-> user,
         height              |-> ProfileField(final, "height"),
         shoulder_width      |-> ProfileField(final, "shoulder_width"),
         torso_length        |-> ProfileField(final, "torso_length"),
         arm_length          |-> ProfileField(final, "arm_length"),
         leg_length          |-> ProfileField(final, "leg_length"),
         hip_width           |-> ProfileField(final, "hip_width"),
         scale_factor        |-> Get(slf.calibration_data, "global_scale_factor", 10),
         calibration_quality |-> calculate_quality_score(ms),
         measurement_count   |-> Len(ms),
         timestamp           |-> now]

ProfileRaises(ms) ==
    \E k \in 1..Len(grouped_keys(ms)) : WeightedValueRaises(grouped(ms, grouped_keys(ms)[k]))

----------------------------------------------------------------------------
(* Step 7: validate_measurements *)

\* (min_val, max_val) in tenths of a centimetre
reasonable_ranges ==
    [height         |-> <<1400, 2200>>,
     shoulder_width |-> <<300, 700>>,
     torso_length   |-> <<400, 800>>,
     arm_length     |-> <<500, 900>>,
     leg_length     |-> <<600, 1200>>,
     hip_width      |-> <<250, 600>>]

\* variant: a mean on a bound is out of range as well
OutOfRangeAtBounds(stat, range) ==
    \/ stat.total <= range[1] * stat.count
    \/ stat.total >= range[2] * stat.count

\* "mean_val < min_val or mean_val > max_val", on the exact sums
OutOfRange(stat, range) ==
    \/ stat.total < range[1] * stat.count
    \/ stat.total > range[2] * stat.count

RangeIssues(ms) ==
    LET stats == calculate_measurement_statistics(ms)
        flagged == SelectSeq(expected_measurements,
                             LAMBDA t : /\ t \in DOMAIN stats
                                        /\ OutOfRange(stats[t], reasonable_ranges[t]))
    IN  [k \in 1..Len(flagged) |-> [kind |-> "out of reasonable range",
                                     measurement_type |-> flagged[k],
                                     amount |-> stats[flagged[k]].mean]]

\* variant: a count equal to min_samples is insufficient as well
InsufficientIssuesInclusive(slf, ms) ==
    IF Len(ms) <= slf.min_samples
    THEN <<[kind |-> "Insufficient data", measurement_type |-> "", amount |-> Len(ms)]>>
    ELSE <<>>

InsufficientIssues(slf, ms) ==
    LET stats == calculate_measurement_statistics(ms)
        total_measurements ==
            SumSeq([k \in 1..Len(grouped_keys(ms)) |-> stats[grouped_keys(ms)[k]].count])
    IN  IF total_measurements < slf.min_samples
        THEN <<[kind |-> "Insufficient data", measurement_type |-> "",
                amount |-> total_measurements]>>
        ELSE <<>>

validate_measurements(slf, ms) ==
    LET issues == RangeIssues(ms) \o InsufficientIssues(slf, ms)
    IN  [is_valid |-> Len(issues) = 0, issues |-> issues]

----------------------------------------------------------------------------
(* DataNormalizer.__init__ and load_calibration_data *)

\* what json.load returns for the calibration file; a missing file gives {}
load_calibration_data(file) == IF file.exists THEN file.content ELSE EmptyDict

LoadWarning(file) ==
    IF file.exists THEN <<>> ELSE <<"Warning: Calibration file not found">>

DataNormalizer(file, outlier_threshold, min_confidence, min_samples) ==
    [calibration_file  |-> file,
     outlier_threshold |-> outlier_threshold,
     min_confidence    |-> min_confidence,
     min_samples       |-> min_samples,
     calibration_data  |-> load_calibration_data(file)]

MeasurementPoint(timestamp, measurement_type, value, confidence, depth, frame_id, landmarks_quality) ==
    [timestamp         |-> timestamp,
     measurement_type  |-> measurement_type,
     value             |-> value,
     confidence        |-> confidence,
     depth             |-> depth,
     frame_id          |-> frame_id,
     landmarks_quality |-> landmarks_quality]

----------------------------------------------------------------------------
(* process_measurements, one action per stage *)

Step(text, counts) == [text |-> text, counts |-> counts]

Call(fn, arg) == [fn |-> fn, arg |-> arg]

initial_count == Len(measurements)

\* the state on entry to process_measurements(ms, user) of the normalizer slf
Entry(slf, ms, user) ==
    /\ self = slf
    /\ user_id = user
    /\ measurements = ms
    /\ pc = "filter_by_confidence"
    /\ calls = <<>>
    /\ filtered_measurements = <<>>
    /\ cleaned_measurements = <<>>
    /\ smoothed_measurements = <<>>
    /\ depth_corrected = <<>>
    /\ scaled_measurements = <<>>
    /\ body_profile = None
    /\ validation = None
    /\ quality_score = 0
    /\ processing_steps = <<>>
    /\ stdout = LoadWarning(slf.calibration_file)
    /\ returned = None
    /\ landmarks = <<>>
    /\ reference_points = None
    /\ target_height = 1000
    /\ center_point = ""
    /\ centered_coords = <<>>
    /\ rotated_coords = <<>>
    /\ scaled_coords = <<>>
    /\ normalized_landmarks = <<>>
    /\ wall_time = 1
    /\ NoProcessor
    /\ NoCalibrationSystem

ConfidenceFilterStep ==
    /\ pc = "filter_by_confidence"
    /\ filtered_measurements' = filter_by_confidence(self.min_confidence, measurements)
    /\ calls' = Append(calls, Call("filter_by_confidence", measurements))
    /\ processing_steps' =
           Append(processing_steps,
                  Step("Step 1 - Confidence filter",
                       <<Len(filtered_measurements'), initial_count>>))
    /\ stdout' = Append(stdout, "Starting data normalization and refinement...")
    /\ pc' = "remove_outliers"
    /\ UNCHANGED <<landmark_vars, wall_time, session_vars, capture_vars, self, user_id, measurements, cleaned_measurements, smoothed_measurements,
                   depth_corrected, scaled_measurements, body_profile, validation,
                   quality_score, returned>>

OutlierRemovalStep ==
    /\ pc = "remove_outliers"
    /\ cleaned_measurements' = remove_outliers(self, filtered_measurements)
    /\ calls' = Append(calls, Call("remove_outliers", filtered_measurements))
    /\ processing_steps' =
           Append(processing_steps,
                  Step("Step 2 - Outlier removal",
                       <<Len(cleaned_measurements'), initial_count>>))
    /\ stdout' = stdout \o RemovedOutlierLines(self, filtered_measurements)
    /\ pc' = "apply_temporal_smoothing"
    /\ UNCHANGED <<landmark_vars, wall_time, session_vars, capture_vars, self, user_id, measurements, filtered_measurements, smoothed_measurements,
                   depth_corrected, scaled_measurements, body_profile, validation,
                   quality_score, returned>>

TemporalSmoothingStep ==
    /\ pc = "apply_temporal_smoothing"
    /\ calls' = Append(calls, Call("apply_temporal_smoothing", cleaned_measurements))
    /\ IF SmoothingRaises(cleaned_measurements)
       THEN /\ pc' = "raised"
            /\ UNCHANGED <<smoothed_measurements, processing_steps>>
       ELSE /\ smoothed_measurements' = apply_temporal_smoothing(cleaned_measurements)
            /\ processing_steps' =
                   Append(processing_steps, Step("Step 3 - Temporal smoothing applied", <<>>))
            /\ pc' = "apply_depth_correction"
    /\ cleaned_measurements' = InputAfterSmoothing(cleaned_measurements)
    /\ UNCHANGED <<landmark_vars, wall_time, session_vars, capture_vars, self, user_id, measurements, filtered_measurements, depth_corrected, scaled_measurements, body_profile, validation,
                   quality_score, stdout, returned>>

DepthCorrectionStep ==
    /\ pc = "apply_depth_correction"
    /\ calls' = Append(calls, Call("apply_depth_correction", smoothed_measurements))
    /\ stdout' = stdout \o DepthWarning(self)
    /\ IF DepthCorrectionRaises(self, smoothed_measurements)
       THEN /\ pc' = "raised"
            /\ UNCHANGED <<depth_corrected, processing_steps>>
       ELSE /\ depth_corrected' = apply_depth_correction(self, smoothed_measurements)
            /\ processing_steps' =
                   Append(processing_steps, Step("Step 4 - Depth correction applied", <<>>))
            /\ pc' = "apply_calibration_scaling"
    /\ UNCHANGED <<landmark_vars, wall_time, session_vars, capture_vars, self, user_id, measurements, filtered_measurements, cleaned_measurements,
                   smoothed_measurements, scaled_measurements, body_profile, validation,
                   quality_score, returned>>

CalibrationScalingStep ==
    /\ pc = "apply_calibration_scaling"
    /\ scaled_measurements' = apply_calibration_scaling(self, depth_corrected)
    /\ calls' = Append(calls, Call("apply_calibration_scaling", depth_corrected))
    /\ processing_steps' =
           Append(processing_steps, Step("Step 5 - Calibration scaling applied", <<>>))
    /\ stdout' = stdout \o ScalingWarning(self)
    /\ pc' = "create_body_profile"
    /\ UNCHANGED <<landmark_vars, wall_time, session_vars, capture_vars, self, user_id, measurements, filtered_measurements, cleaned_measurements,
                   smoothed_measurements, depth_corrected, body_profile, validation,
                   quality_score, returned>>

\* the values time.time() returns
Clock == {1000}

\* variant: the profile is built from the points before calibration scaling
ProfileBuildStepUnscaled ==
    /\ pc = "create_body_profile"
    /\ calls' = Append(calls, Call("create_body_profile", depth_corrected))
    /\ IF ProfileRaises(depth_corrected)
       THEN /\ pc' = "raised"
            /\ UNCHANGED body_profile
       ELSE /\ \E now \in Clock :
                   body_profile' = create_body_profile(self, depth_corrected, user_id, now)
            /\ pc' = "validate_measurements"
    /\ UNCHANGED <<landmark_vars, wall_time, session_vars, capture_vars, self, user_id, measurements, filtered_measurements, cleaned_measurements,
                   smoothed_measurements, depth_corrected, scaled_measurements, validation,
                   quality_score, processing_steps, stdout, returned>>

ProfileBuildStep ==
    /\ pc = "create_body_profile"
    /\ calls' = Append(calls, Call("create_body_profile", scaled_measurements))
    /\ IF ProfileRaises(scaled_measurements)
       THEN /\ pc' = "raised"
            /\ UNCHANGED body_profile
       ELSE /\ \E now \in Clock :
                   body_profile' = create_body_profile(self, scaled_measurements, user_id, now)
            /\ pc' = "validate_measurements"
    /\ UNCHANGED <<landmark_vars, wall_time, session_vars, capture_vars, self, user_id, measurements, filtered_measurements, cleaned_measurements,
                   smoothed_measurements, depth_corrected, scaled_measurements, validation,
                   quality_score, processing_steps, stdout, returned>>

ValidationStep ==
    /\ pc = "validate_measurements"
    /\ validation' = validate_measurements(self, scaled_measurements)
    /\ calls' = Append(calls, Call("validate_measurements", scaled_measurements))
    /\ processing_steps' =
           Append(processing_steps,
                  IF validation'.is_valid
                  THEN Step("Step 6 - Validation: PASSED", <<>>)
                  ELSE Step("Step 6 - Validation: FAILED", <<>>))
    /\ pc' = "calculate_quality_score"
    /\ UNCHANGED <<landmark_vars, wall_time, session_vars, capture_vars, self, user_id, measurements, filtered_measurements, cleaned_measurements,
                   smoothed_measurements, depth_corrected, scaled_measurements, body_profile,
                   quality_score, stdout, returned>>

\* variant: the score of the report is computed from the points passed in
ReportStepScoringInput ==
    /\ pc = "calculate_quality_score"
    /\ quality_score' = calculate_quality_score(measurements)
    /\ calls' = Append(calls, Call("calculate_quality_score", measurements))
    /\ stdout' = Append(stdout, "Data normalization complete")
    /\ returned' = [body_profile |-> body_profile,
                    report |-> [initial_count    |-> initial_count,
                                final_count      |-> Len(scaled_measurements),
                                processing_steps |-> processing_steps,
                                quality_score    |-> quality_score',
                                issues           |-> validation.issues]]
    /\ pc' = "done"
    /\ UNCHANGED <<landmark_vars, wall_time, session_vars, capture_vars, self, user_id, measurements, filtered_measurements, cleaned_measurements,
                   smoothed_measurements, depth_corrected, scaled_measurements, body_profile,
                   validation, processing_steps>>

\* the quality score, the report and the return
ReportStep ==
    /\ pc = "calculate_quality_score"
    /\ quality_score' = calculate_quality_score(scaled_measurements)
    /\ calls' = Append(calls, Call("calculate_quality_score", scaled_measurements))
    /\ stdout' = Append(stdout, "Data normalization complete")
    /\ returned' = [body_profile |-> body_profile,
                    report |-> [initial_count    |-> initial_count,
                                final_count      |-> Len(scaled_measurements),
                                processing_steps |-> processing_steps,
                                quality_score    |-> quality_score',
                                issues           |-> validation.issues]]
    /\ pc' = "done"
    /\ UNCHANGED <<landmark_vars, wall_time, session_vars, capture_vars, self, user_id, measurements, filtered_measurements, cleaned_measurements,
                   smoothed_measurements, depth_corrected, scaled_measurements, body_profile,
                   validation, processing_steps>>

----------------------------------------------------------------------------
(* The calls explored: normalizers and measurement lists *)

MaxLen == 3

\* calibration files: none on disk, or one with all three keys
CalibrationTable ==
    [reference_depth     |-> 20,
     scaling_factors     |-> [height |-> 5, shoulder_width |-> 12],
     global_scale_factor |-> 12]

Files == {[exists |-> FALSE, content |-> EmptyDict], [exists |-> TRUE, content |-> CalibrationTable]}

\* the default threshold 2.5 and a strict threshold 1.0
DefaultThreshold == [num |-> 5, den |-> 2]

StrictThreshold == [num |-> 1, den |-> 1]

Normalizers ==
    {DataNormalizer(file, DefaultThreshold, 5, 5) : file \in Files}
        \cup {DataNormalizer(file, StrictThreshold, 5, 3) : file \in Files}

\* what a point can look like, apart from its timestamp and frame
Shape(measurement_type, value, confidence, depth, landmarks_quality) ==
    [measurement_type |-> measurement_type, value |-> value, confidence |-> confidence,
     depth |-> depth, landmarks_quality |-> landmarks_quality]

SampleShapes ==
    {Shape("height", 1700, 9, 20, 10),
     Shape("height", 4000, 9, 20, 10),
     Shape("height", 1700, 3, 20, 10),
     Shape("height", 1800, 9, 10, 0),
     Shape("hip_width", 400, 9, 20, 10),
     Shape("hip_width", 500, 5, 10, 8),
     Shape("hip_width", 450, 8, 0, 10)}

\* frames in capture order, in reverse order, all with one timestamp, or interleaved
TimePatterns == {"ascending", "descending", "tied", "alternating"}

TimeOf(pattern, i) ==
    CASE pattern = "ascending"   -> 100 + i
      [] pattern = "descending"  -> 100 - i
      [] pattern = "tied"        -> 100
      [] pattern = "alternating" -> 100 + (i % 2)

\* the i-th point of a list is taken from frame i
PointsOf(shapes, pattern) ==
    [i \in 1..Len(shapes) |->
        MeasurementPoint(TimeOf(pattern, i), shapes[i].measurement_type, shapes[i].value,
                         shapes[i].confidence, shapes[i].depth, i,
                         shapes[i].landmarks_quality)]

ListsOver(shapes, patterns, maxlen) ==
    UNION {{PointsOf(list, pattern) : list \in [1..n -> shapes], pattern \in patterns} :
           n \in 0..maxlen}

SampleInputs == ListsOver(SampleShapes, TimePatterns, MaxLen)

Init == \E slf \in Normalizers, ms \in SampleInputs : Entry(slf, ms, "test_user")

Next ==
    \/ ConfidenceFilterStep
    \/ OutlierRemovalStep
    \/ TemporalSmoothingStep
    \/ DepthCorrectionStep
    \/ CalibrationScalingStep
    \/ ProfileBuildStep
    \/ ValidationStep
    \/ ReportStep

Spec == Init /\ [][Next]_vars

----------------------------------------------------------------------------
(* Calls that exercise outlier removal: every point passes the confidence filter *)

MaxGroup == 5

MaxCluster == 8

MaxInjected == 2

OutlierShapes ==
    {Shape("height", 500, 9, 20, 10),
     Shape("height", 800, 9, 20, 10),
     Shape("hip_width", 400, 9, 20, 10),
     Shape("hip_width", 900, 9, 20, 10)}

\* n heights near 500 (exactly 500 when spread is 0) and k heights at the injected
\* value, which come first, last, or after the second clustered one
ClusterValues(n, spread, k, injected, position) ==
    LET cluster == [i \in 1..n |-> 500 + spread * (i % 2)]
        extra == [i \in 1..k |-> injected]
    IN  CASE position = "first"  -> extra \o cluster
          [] position = "last"   -> cluster \o extra
          [] position = "inside" -> SubSeq(cluster, 1, 2) \o extra \o SubSeq(cluster, 3, n)

ClusterInputs ==
    {PointsOf([i \in 1..(n + k) |->
                  Shape("height", ClusterValues(n, spread, k, injected, position)[i], 9, 20, 10)],
              "ascending") :
        n \in 5..MaxCluster, k \in 1..MaxInjected, spread \in {0, 10},
        injected \in {300, 800}, position \in {"first", "last", "inside"}}

NoFile == [exists |-> FALSE, content |-> EmptyDict]

OutlierNormalizers ==
    {DataNormalizer(NoFile, DefaultThreshold, 5, 5),
     DataNormalizer(NoFile, StrictThreshold, 5, 3),
     DataNormalizer(NoFile, StrictThreshold, 5, 5)}

InitOutliers ==
    \/ \E slf \in OutlierNormalizers, ms \in ListsOver(OutlierShapes, {"ascending"}, MaxGroup) :
          Entry(slf, ms, "outlier_test")
    \/ \E ms \in ClusterInputs :
          Entry(DataNormalizer(NoFile, DefaultThreshold, 5, 5), ms, "outlier_test")

SpecOutliers == InitOutliers /\ [][Next]_vars

----------------------------------------------------------------------------
(* Calls with many measurement types: measurement_type is a free string *)

MaxTypes == 15

TypeNames ==
    expected_measurements \o
    <<"neck_width", "head_height", "waist_width", "chest_width", "forearm_length",
      "upper_arm_length", "thigh_length", "shin_length", "foot_length", "hand_length",
      "knee_width", "elbow_width">>

\* every one of the first t types measured `copies` times, the later copies off by delta
TypedShapes(t, copies, value, delta, confidence, landmarks_quality) ==
    [i \in 1..(t * copies) |->
        Shape(TypeNames[((i - 1) % t) + 1], value + delta * ((i - 1) \div t),
              confidence, 20, landmarks_quality)]

QualityInputs ==
    {PointsOf(TypedShapes(t, copies, value, delta, confidence, landmarks_quality), "ascending") :
        t \in 0..MaxTypes, copies \in 1..2, value \in {0, 1700}, delta \in {0, 100},
        confidence \in {5, 10}, landmarks_quality \in {5, 10}}

InitQuality ==
    \E file \in Files, ms \in QualityInputs :
        Entry(DataNormalizer(file, DefaultThreshold, 5, 5), ms, "quality_test")

SpecQuality == InitQuality /\ [][Next]_vars

----------------------------------------------------------------------------
(* Calls that exercise temporal smoothing: frames out of order, weights of zero *)

MaxSmooth == 4

MaxSeries == 6

SmoothShapes ==
    {Shape("height", 1700, 9, 20, 10),
     Shape("height", 1900, 5, 20, 10),
     Shape("height", 1800, 9, 20, 0),
     Shape("hip_width", 400, 9, 20, 10),
     Shape("hip_width", 460, 6, 20, 0)}

\* n heights that differ from frame to frame; landmarks_quality is 1.0 in the frames
\* listed in `landmarked` and 0.0 in the others
SeriesShapes(n, landmarked) ==
    [i \in 1..n |->
        Shape("height", 1700 + 10 * ((i * i) % 7), 5 + (i % 5), 20,
              CASE landmarked = "all"  -> 10
                [] landmarked = "none" -> 0
                [] landmarked = "odd"  -> 10 * (i % 2))]

SeriesInputs ==
    {PointsOf(SeriesShapes(n, landmarked), pattern) :
        n \in 5..MaxSeries, landmarked \in {"all", "none", "odd"}, pattern \in TimePatterns}

InitSmoothing ==
    \E ms \in ListsOver(SmoothShapes, TimePatterns, MaxSmooth) \cup SeriesInputs :
        Entry(DataNormalizer(NoFile, DefaultThreshold, 5, 5), ms, "smoothing_test")

SpecSmoothing == InitSmoothing /\ [][Next]_vars

----------------------------------------------------------------------------
(* Calls under calibration files of every make-up: json.load returns whatever keys
   the file holds *)

MaxCal == 3

CalibrationFiles ==
    {NoFile,
     [exists |-> TRUE, content |-> EmptyDict],
     [exists |-> TRUE, content |-> CalibrationTable],
     [exists |-> TRUE, content |-> [global_scale_factor |-> 12]],
     [exists |-> TRUE, content |-> [reference_depth |-> 30]],
     [exists |-> TRUE, content |-> [scaling_factors |-> [height |-> 5, shoulder_width |-> 12]]]}

CalibrationShapes ==
    {Shape("height", 1700, 9, 20, 10),
     Shape("height", 1800, 9, 10, 10),
     Shape("shoulder_width", 450, 8, 40, 10),
     Shape("hip_width", 400, 9, 40, 10),
     Shape("hip_width", 450, 8, 0, 10)}

InitCalibration ==
    \E file \in CalibrationFiles, ms \in ListsOver(CalibrationShapes, {"ascending"}, MaxCal) :
        Entry(DataNormalizer(file, DefaultThreshold, 5, 5), ms, "calibration_test")

SpecCalibration == InitCalibration /\ [][Next]_vars

----------------------------------------------------------------------------
(* Calls that exercise the profile build: unequal weights, weights of zero, a type
   outside the six *)

MaxProfile == 4

ProfileShapes ==
    {Shape("height", 1700, 9, 20, 10),
     Shape("height", 1900, 5, 20, 10),
     Shape("height", 1800, 9, 20, 0),
     Shape("hip_width", 400, 9, 20, 0),
     Shape("hip_width", 460, 6, 20, 0),
     Shape("neck_width", 350, 9, 20, 10)}

InitProfile ==
    \E ms \in ListsOver(ProfileShapes, {"ascending"}, MaxProfile) :
        Entry(DataNormalizer(NoFile, DefaultThreshold, 5, 5), ms, "profile_test")

SpecProfile == InitProfile /\ [][Next]_vars

----------------------------------------------------------------------------
(* Calls that exercise validation: means on, just inside and just outside the bounds *)

MaxValid == 3

ValidationShapes ==
    {Shape("height", 1400, 9, 20, 10),
     Shape("height", 1399, 9, 20, 10),
     Shape("height", 2200, 9, 20, 10),
     Shape("height", 2201, 9, 20, 10),
     Shape("hip_width", 250, 9, 20, 10),
     Shape("hip_width", 601, 9, 20, 10),
     Shape("neck_width", 5000, 9, 20, 10)}

InitValidation ==
    \E min_samples \in {2, 5}, ms \in ListsOver(ValidationShapes, {"ascending"}, MaxValid) :
        Entry(DataNormalizer(NoFile, DefaultThreshold, 5, min_samples), ms, "validation_test")

SpecValidation == InitValidation /\ [][Next]_vars

----------------------------------------------------------------------------
(* Calls repeated on one list with one normalizer *)

MaxRepeat == 3

\* the caller passes the list of the call that returned to process_measurements again;
\* `returned` keeps the earlier result until the new call returns
CallAgain ==
    /\ pc = "done"
    /\ pc' = "filter_by_confidence"
    /\ calls' = <<>>
    /\ filtered_measurements' = <<>>
    /\ cleaned_measurements' = <<>>
    /\ smoothed_measurements' = <<>>
    /\ depth_corrected' = <<>>
    /\ scaled_measurements' = <<>>
    /\ body_profile' = None
    /\ validation' = None
    /\ quality_score' = 0
    /\ processing_steps' = <<>>
    /\ stdout' = <<>>
    /\ UNCHANGED <<landmark_vars, wall_time, session_vars, capture_vars, self, user_id, measurements, returned>>

InitRepeat ==
    \E threshold \in {DefaultThreshold, StrictThreshold},
       ms \in ListsOver(SampleShapes, {"descending", "alternating"}, MaxRepeat) :
        Entry(DataNormalizer([exists |-> TRUE, content |-> CalibrationTable], threshold, 5, 3),
              ms, "repeat_test")

NextRepeat ==
    \/ Next
    \/ CallAgain

SpecRepeat == InitRepeat /\ [][NextRepeat]_vars

----------------------------------------------------------------------------
(* normalize_landmarks: coordinates in thousandths, indices 0-based as in the code *)

\* number of columns of np.array(landmarks)
Dim(coords) == IF coords = <<>> THEN 0 ELSE Len(coords[1])

\* "idx < len(coords)"
InRange(coords, idx) == idx < Len(coords)

\* coords[idx]: a negative idx counts from the end
Coord(coords, idx) ==
    IF idx >= 0 THEN coords[idx + 1] ELSE coords[Len(coords) + idx + 1]

\* coords[idx] raises IndexError for an idx below -len(coords)
CoordRaises(coords, idx) == idx < -Len(coords)

default_reference_points ==
    [nose |-> 0, left_shoulder |-> 11, right_shoulder |-> 12, left_hip |-> 23,
     right_hip |-> 24, left_knee |-> 25, right_knee |-> 26, left_ankle |-> 27,
     right_ankle |-> 28]

\* "if reference_points is None: reference_points = {...}"
ReferencePoints(refs) == IF refs = None THEN default_reference_points ELSE refs

\* np.mean(coords, axis=0)
Centroid(coords) ==
    [k \in 1..Dim(coords) |->
        SumSeq([i \in 1..Len(coords) |-> coords[i][k]]) \div Len(coords)]

\* (coords[a] + coords[b]) / 2
Midpoint(coords, a, b) ==
    [k \in 1..Dim(coords) |-> (Coord(coords, a)[k] + Coord(coords, b)[k]) \div 2]

\* the two indices a midpoint is taken of, for center_point 'chest' and 'hip'
PairOf(refs, center) ==
    IF center = "chest"
    THEN <<Get(refs, "left_shoulder", 11), Get(refs, "right_shoulder", 12)>>
    ELSE <<Get(refs, "left_hip", 23), Get(refs, "right_hip", 24)>>

\* the indices the centering step reads coords at
CenterIndices(coords, refs, center) ==
    IF center # "" /\ center \in DOMAIN refs
    THEN IF InRange(coords, refs[center]) THEN {refs[center]} ELSE {}
    ELSE IF center \in {"chest", "hip"}
         THEN IF InRange(coords, PairOf(refs, center)[1])
                 /\ InRange(coords, PairOf(refs, center)[2])
              THEN {PairOf(refs, center)[1], PairOf(refs, center)[2]}
              ELSE {}
         ELSE {}

\* step 1: the center that is subtracted; center_point None is the empty string
Center(coords, refs, center) ==
    IF center # "" /\ center \in DOMAIN refs
    THEN IF InRange(coords, refs[center]) THEN Coord(coords, refs[center])
         ELSE Centroid(coords)
    ELSE IF center \in {"chest", "hip"}
         THEN IF InRange(coords, PairOf(refs, center)[1])
                 /\ InRange(coords, PairOf(refs, center)[2])
              THEN Midpoint(coords, PairOf(refs, center)[1], PairOf(refs, center)[2])
              ELSE Centroid(coords)
         ELSE Centroid(coords)

CenteringRaises(coords, refs, center) ==
    \E idx \in CenterIndices(coords, refs, center) : CoordRaises(coords, idx)

\* coords - center
Centered(coords, refs, center) ==
    [i \in 1..Len(coords) |->
        [k \in 1..Dim(coords) |-> coords[i][k] - Center(coords, refs, center)[k]]]

\* step 2: "left_shoulder_idx < len(coords) and right_shoulder_idx < len(coords)"
ShouldersInRange(coords, refs) ==
    /\ InRange(coords, Get(refs, "left_shoulder", 11))
    /\ InRange(coords, Get(refs, "right_shoulder", 12))

\* right_shoulder - left_shoulder
ShoulderVector(centered, refs) ==
    LET left_shoulder == Coord(centered, Get(refs, "left_shoulder", 11))
        right_shoulder == Coord(centered, Get(refs, "right_shoulder", 12))
    IN  [k \in 1..Dim(centered) |-> right_shoulder[k] - left_shoulder[k]]

\* a row times rotation_matrix.T: with angle = arctan2(v[1], v[0]), cos(-angle) is
\* v[0] / |v| and sin(-angle) is -v[1] / |v|; arctan2(0, 0) is 0
RotatedRow(row, v) ==
    LET norm == Isqrt(v[1] * v[1] + v[2] * v[2])
    IN  IF norm = 0 THEN row
        ELSE <<(v[1] * row[1] + v[2] * row[2]) \div norm,
               (v[1] * row[2] - v[2] * row[1]) \div norm>>

\* np.dot of an n x d array with the 2 x 2 rotation matrix raises ValueError unless
\* d = 2; the shoulder rows are read first
RotationRaises(centered, refs) ==
    /\ ShouldersInRange(centered, refs)
    /\ \/ CoordRaises(centered, Get(refs, "left_shoulder", 11))
       \/ CoordRaises(centered, Get(refs, "right_shoulder", 12))
       \/ Dim(centered) # 2

Rotated(centered, refs) ==
    IF ShouldersInRange(centered, refs)
    THEN [i \in 1..Len(centered) |-> RotatedRow(centered[i], ShoulderVector(centered, refs))]
    ELSE centered

Abs(x) == IF x < 0 THEN -x ELSE x

\* np.argmax: the first index (0-based) of the largest value
ArgMax(values) ==
    (CHOOSE i \in 1..Len(values) :
        /\ \A j \in 1..Len(values) : values[j] <= values[i]
        /\ \A j \in 1..(i - 1) : values[j] < values[i]) - 1

\* step 3: the lowest foot point
FootPoint(rotated, refs, head_point) ==
    LET left_ankle_idx == Get(refs, "left_ankle", 27)
        right_ankle_idx == Get(refs, "right_ankle", 28)
    IN  IF InRange(rotated, left_ankle_idx) /\ InRange(rotated, right_ankle_idx)
        THEN IF Coord(rotated, left_ankle_idx)[2] > Coord(rotated, right_ankle_idx)[2]
             THEN Coord(rotated, left_ankle_idx) ELSE Coord(rotated, right_ankle_idx)
        ELSE IF InRange(rotated, left_ankle_idx) THEN Coord(rotated, left_ankle_idx)
        ELSE IF InRange(rotated, right_ankle_idx) THEN Coord(rotated, right_ankle_idx)
        ELSE Coord(rotated,
                   ArgMax([i \in 1..Len(rotated) |-> Abs(rotated[i][2] - head_point[2])]))

\* the indices the scaling step reads rows at
ScalingIndices(rotated, refs) ==
    IF InRange(rotated, Get(refs, "nose", 0))
    THEN {Get(refs, "nose", 0)}
            \cup {idx \in {Get(refs, "left_ankle", 27), Get(refs, "right_ankle", 28)} :
                     InRange(rotated, idx)}
    ELSE {}

ScalingRaises(rotated, refs) ==
    \E idx \in ScalingIndices(rotated, refs) : CoordRaises(rotated, idx)

\* abs(head_point[1] - foot_point[1]), or the extent in y when the nose is out of range
CurrentHeight(rotated, refs) ==
    IF InRange(rotated, Get(refs, "nose", 0))
    THEN LET head_point == Coord(rotated, Get(refs, "nose", 0))
         IN  Abs(head_point[2] - FootPoint(rotated, refs, head_point)[2])
    ELSE LET ys == {rotated[i][2] : i \in 1..Len(rotated)}
         IN  (CHOOSE y \in ys : \A z \in ys : z <= y) - (CHOOSE y \in ys : \A z \in ys : y <= z)

ScaledCoordsPlanar(rotated, refs, target) ==
    LET current_height == CurrentHeight(rotated, refs)
    IN  IF current_height > 0
        THEN [i \in 1..Len(rotated) |->
                 [k \in 1..Dim(rotated) |->
                     IF k <= 2 THEN (rotated[i][k] * target) \div current_height
                     ELSE rotated[i][k]]]
        ELSE rotated

\* rotated_coords * (target_height / current_height) when current_height > 0
ScaledCoords(rotated, refs, target) ==
    LET current_height == CurrentHeight(rotated, refs)
    IN  IF current_height > 0
        THEN [i \in 1..Len(rotated) |->
                 [k \in 1..Dim(rotated) |-> (rotated[i][k] * target) \div current_height]]
        ELSE rotated

\* "for x, y in scaled_coords" raises ValueError unless every row has 2 entries
ConversionRaises(scaled) == Dim(scaled) # 2

\* [(float(x), float(y)) for x, y in scaled_coords]
AsTuples(scaled) == [i \in 1..Len(scaled) |-> <<scaled[i][1], scaled[i][2]>>]

pipeline_vars == <<self, user_id, measurements, calls, filtered_measurements,
                   cleaned_measurements, smoothed_measurements, depth_corrected,
                   scaled_measurements, body_profile, validation, quality_score,
                   processing_steps, stdout, returned>>

\* the state on entry to normalize_landmarks(lms, refs, target, center) of slf
LandmarkEntry(slf, lms, refs, target, center) ==
    /\ self = slf
    /\ user_id = ""
    /\ measurements = <<>>
    /\ pc = "normalize_landmarks"
    /\ calls = <<>>
    /\ filtered_measurements = <<>>
    /\ cleaned_measurements = <<>>
    /\ smoothed_measurements = <<>>
    /\ depth_corrected = <<>>
    /\ scaled_measurements = <<>>
    /\ body_profile = None
    /\ validation = None
    /\ quality_score = 0
    /\ processing_steps = <<>>
    /\ stdout = LoadWarning(slf.calibration_file)
    /\ returned = None
    /\ landmarks = lms
    /\ reference_points = refs
    /\ target_height = target
    /\ center_point = center
    /\ centered_coords = <<>>
    /\ rotated_coords = <<>>
    /\ scaled_coords = <<>>
    /\ normalized_landmarks = None
    /\ wall_time = 1
    /\ NoProcessor
    /\ NoCalibrationSystem

\* the guard on fewer than 2 landmarks, then step 1
CenteringStep ==
    /\ pc = "normalize_landmarks"
    /\ IF Len(landmarks) < 2
       THEN /\ normalized_landmarks' = landmarks
            /\ pc' = "done"
            /\ UNCHANGED centered_coords
       ELSE IF CenteringRaises(landmarks, ReferencePoints(reference_points), center_point)
       THEN /\ pc' = "raised"
            /\ UNCHANGED <<centered_coords, normalized_landmarks>>
       ELSE /\ centered_coords' =
                   Centered(landmarks, ReferencePoints(reference_points), center_point)
            /\ pc' = "rotation"
            /\ UNCHANGED normalized_landmarks
    /\ UNCHANGED <<pipeline_vars, wall_time, session_vars, capture_vars, landmarks, reference_points, target_height, center_point,
                   rotated_coords, scaled_coords>>

RotationStep ==
    /\ pc = "rotation"
    /\ IF RotationRaises(centered_coords, ReferencePoints(reference_points))
       THEN /\ pc' = "raised"
            /\ UNCHANGED rotated_coords
       ELSE /\ rotated_coords' = Rotated(centered_coords, ReferencePoints(reference_points))
            /\ pc' = "scaling"
    /\ UNCHANGED <<pipeline_vars, wall_time, session_vars, capture_vars, landmarks, reference_points, target_height, center_point,
                   centered_coords, scaled_coords, normalized_landmarks>>

ScalingStep ==
    /\ pc = "scaling"
    /\ IF ScalingRaises(rotated_coords, ReferencePoints(reference_points))
       THEN /\ pc' = "raised"
            /\ UNCHANGED scaled_coords
       ELSE /\ scaled_coords' =
                   ScaledCoords(rotated_coords, ReferencePoints(reference_points),
                                target_height)
            /\ pc' = "conversion"
    /\ UNCHANGED <<pipeline_vars, wall_time, session_vars, capture_vars, landmarks, reference_points, target_height, center_point,
                   centered_coords, rotated_coords, normalized_landmarks>>

\* the conversion back to a list of tuples, and the return
ConversionStep ==
    /\ pc = "conversion"
    /\ IF ConversionRaises(scaled_coords)
       THEN /\ pc' = "raised"
            /\ UNCHANGED normalized_landmarks
       ELSE /\ normalized_landmarks' = AsTuples(scaled_coords)
            /\ pc' = "done"
    /\ UNCHANGED <<pipeline_vars, wall_time, session_vars, capture_vars, landmarks, reference_points, target_height, center_point,
                   centered_coords, rotated_coords, scaled_coords>>

\* the 33 landmarks of create_dummy_mediapipe_landmarks
DummyLandmarks ==
    <<<<500, 100, 0>>, <<495, 95, 5>>, <<490, 94, 10>>,
      <<485, 95, 0>>, <<505, 95, 5>>, <<510, 94, 10>>,
      <<515, 95, 0>>, <<475, 105, -15>>, <<525, 105, -15>>,
      <<490, 120, 10>>, <<510, 120, 10>>, <<400, 250, 20>>,
      <<600, 250, 20>>, <<350, 350, 0>>, <<650, 350, 0>>,
      <<300, 450, -30>>, <<700, 450, -30>>, <<295, 470, -40>>,
      <<300, 465, -35>>, <<305, 460, -35>>, <<705, 470, -40>>,
      <<700, 465, -35>>, <<695, 460, -35>>, <<450, 750, 10>>,
      <<550, 750, 10>>, <<440, 850, 5>>, <<560, 850, 5>>,
      <<420, 1050, 50>>, <<580, 1050, 50>>, <<410, 1070, 40>>,
      <<590, 1070, 40>>, <<415, 1100, 70>>, <<585, 1100, 70>>>>

\* a schema of four points: nose, two shoulders, one ankle
SmallSchema == [nose |-> 0, left_shoulder |-> 1, right_shoulder |-> 2, left_ankle |-> 3]

\* the dummy landmarks rotated by 30 degrees about (0.5, 0.5) in the XY plane, as
\* test_rotation_correction builds them: cos is 0.866 and sin 0.5, in thousandths
TiltedLandmarks ==
    [i \in 1..Len(DummyLandmarks) |->
        LET x == DummyLandmarks[i][1]
            y == DummyLandmarks[i][2]
        IN  <<(866 * (x - 500) - 500 * (y - 500)) \div 1000 + 500,
              (500 * (x - 500) + 866 * (y - 500)) \div 1000 + 500,
              DummyLandmarks[i][3]>>]

\* a schema with indices that count from the end: the nose is the third point from
\* the end, the ankle the first point
FromEndSchema == [nose |-> -3, left_shoulder |-> 1, right_shoulder |-> 2, left_ankle |-> 0]

\* the first n of a list of landmarks, as (x, y) pairs or (x, y, z) triples
LandmarkSet(base, n, dim) == [i \in 1..n |-> SubSeq(base[i], 1, dim)]

InitLandmarks ==
    \E base \in {DummyLandmarks, TiltedLandmarks},
       n \in 0..Len(DummyLandmarks), dim \in {2, 3},
       refs \in {None, SmallSchema, FromEndSchema}, target \in {1000, 1700},
       center \in {"", "nose", "chest", "hip", "left_knee", "elbow"} :
        LandmarkEntry(DataNormalizer(NoFile, DefaultThreshold, 5, 5),
                      LandmarkSet(base, n, dim), refs, target, center)

NextLandmarks ==
    \/ CenteringStep
    \/ RotationStep
    \/ ScalingStep
    \/ ConversionStep

SpecLandmarks == InitLandmarks /\ [][NextLandmarks]_vars

----------------------------------------------------------------------------
(* ErgoScanProcessor: the scanning session around process_measurements.  A frame is
   what the pose detector finds in it: nothing, or a body with its six pixel
   measures (in tenths), the mean visibility and the mean presence of its landmarks *)

MaxFrames == 3

\* the import of mediapipe succeeded
MEDIAPIPE_AVAILABLE == TRUE

\* a body facing the camera; one seen from the side, its shoulders and hips on one
\* pixel column and its landmarks poorly visible
FramePoses ==
    {[measures |-> <<4000, 1000, 1500, 1700, 2000, 800>>, visibility |-> 9, presence |-> 8],
     [measures |-> <<3800, 0, 1400, 1600, 2100, 0>>, visibility |-> 4, presence |-> 8]}

\* one MeasurementPoint per measure > 0, in the order of measurement_data
extract_measurements_from_landmarks(pose, timestamp, frame_id) ==
    IF pose = None \/ ~MEDIAPIPE_AVAILABLE THEN <<>>
    ELSE LET kept == {k \in 1..6 : pose.measures[k] > 0}
         IN  [j \in 1..Cardinality(kept) |->
                 LET k == CHOOSE i \in kept : Cardinality({h \in kept : h < i}) = j - 1
                 IN  MeasurementPoint(timestamp, expected_measurements[k], pose.measures[k],
                                      pose.visibility, 20, frame_id, pose.presence)]

process_locals == <<self, user_id, measurements, pc, calls, filtered_measurements,
                    cleaned_measurements, smoothed_measurements, depth_corrected,
                    scaled_measurements, body_profile, validation, quality_score,
                    processing_steps, returned>>

\* ErgoScanProcessor(): a normalizer with the default arguments, an empty buffer
ErgoScanProcessor(file) ==
    /\ self = DataNormalizer(file, DefaultThreshold, 5, 5)
    /\ user_id = ""
    /\ measurements = <<>>
    /\ pc = ""
    /\ calls = <<>>
    /\ filtered_measurements = <<>>
    /\ cleaned_measurements = <<>>
    /\ smoothed_measurements = <<>>
    /\ depth_corrected = <<>>
    /\ scaled_measurements = <<>>
    /\ body_profile = None
    /\ validation = None
    /\ quality_score = 0
    /\ processing_steps = <<>>
    /\ stdout = LoadWarning(file)
    /\ returned = None
    /\ landmarks = <<>>
    /\ reference_points = None
    /\ target_height = 1000
    /\ center_point = ""
    /\ centered_coords = <<>>
    /\ rotated_coords = <<>>
    /\ scaled_coords = <<>>
    /\ normalized_landmarks = <<>>
    /\ wall_time = 1
    /\ session_pc = "ready"
    /\ scanning_active = FALSE
    /\ measurement_buffer = <<>>
    /\ frame_count = 0
    /\ collected_active = <<>>
    /\ session_returned = None
    /\ NoCalibrationSystem

start_scanning_session ==
    /\ session_pc = "ready"
    /\ scanning_active' = TRUE
    /\ measurement_buffer' = <<>>
    /\ frame_count' = 0
    /\ collected_active' = <<>>
    /\ UNCHANGED <<process_locals, stdout, landmark_vars, capture_vars, wall_time, session_pc,
                   session_returned>>

\* process_frame(frame, collect_measurements); the frames are half a second apart
process_frame ==
    /\ session_pc = "ready"
    /\ wall_time <= MaxFrames
    /\ wall_time' = wall_time + 1
    /\ frame_count' = frame_count + 1
    /\ \E pose \in FramePoses \cup {None}, collect_measurements \in BOOLEAN :
          LET extracted == extract_measurements_from_landmarks(pose, wall_time', frame_count')
          IN  IF MEDIAPIPE_AVAILABLE /\ pose # None /\ collect_measurements
              THEN /\ measurement_buffer' = measurement_buffer \o extracted
                   /\ collected_active' =
                          collected_active \o [i \in 1..Len(extracted) |-> scanning_active]
              ELSE UNCHANGED <<measurement_buffer, collected_active>>
    /\ UNCHANGED <<process_locals, stdout, landmark_vars, capture_vars, session_pc,
                   scanning_active, session_returned>>

\* end_scanning_session(user_id) up to its return on an empty buffer, or up to its
\* call of process_measurements; stdout is what that call prints
end_scanning_session ==
    /\ session_pc = "ready"
    /\ scanning_active' = FALSE
    /\ IF measurement_buffer = <<>>
       THEN /\ session_returned' = [body_profile |-> None, report |-> EmptyDict]
            /\ UNCHANGED <<process_locals, stdout, session_pc>>
       ELSE /\ stdout' = <<>>
            /\ session_pc' = "end_scanning_session"
            /\ \E user \in {"default", "demo_user"} : user_id' = user
            /\ measurements' = measurement_buffer
            /\ pc' = "filter_by_confidence"
            /\ calls' = <<>>
            /\ filtered_measurements' = <<>>
            /\ cleaned_measurements' = <<>>
            /\ smoothed_measurements' = <<>>
            /\ depth_corrected' = <<>>
            /\ scaled_measurements' = <<>>
            /\ body_profile' = None
            /\ validation' = None
            /\ quality_score' = 0
            /\ processing_steps' = <<>>
            /\ returned' = None
            /\ UNCHANGED <<self, session_returned>>
    /\ UNCHANGED <<landmark_vars, capture_vars, wall_time, measurement_buffer, frame_count,
                   collected_active>>

\* process_measurements has returned: the buffer is cleared, the pair is returned
EndSessionReturn ==
    /\ session_pc = "end_scanning_session"
    /\ pc = "done"
    /\ measurement_buffer' = <<>>
    /\ collected_active' = <<>>
    /\ session_returned' = returned
    /\ session_pc' = "ready"
    /\ UNCHANGED <<process_locals, stdout, landmark_vars, capture_vars, wall_time,
                   scanning_active, frame_count>>

InitSession == \E file \in Files : ErgoScanProcessor(file)

NextSession ==
    \/ start_scanning_session
    \/ process_frame
    \/ end_scanning_session
    \/ Next
    \/ EndSessionReturn

SpecSession == InitSession /\ [][NextSession]_vars

----------------------------------------------------------------------------
(* BodyCalibrationSystem: the capture loop runs on its own thread, the button
   commands and the closing of the window on the Tk thread.  Times are in half
   seconds.  A widget call of the capture thread raises TclError once the window is
   destroyed; between cleanup and destroy it goes through or fails, as the Tcl
   build decides *)

POSES == <<"T-Pose", "Neutral Standing", "Seated Neutral">>

\* 2 seconds
FULL_BODY_HOLD_TIME == 4

\* 10 seconds
COUNTDOWN_TIME == 20

MaxClock == 72

\* time between two frames: under half a second, 2 seconds, 9.5 seconds
FrameGaps == {0, 4, 19}

\* int(COUNTDOWN_TIME - elapsed), in seconds: int() truncates toward zero
Remaining(elapsed) ==
    IF COUNTDOWN_TIME - elapsed >= 0
    THEN (COUNTDOWN_TIME - elapsed) \div 2
    ELSE -((elapsed - COUNTDOWN_TIME) \div 2)

Button(state, command) == [state |-> state, command |-> command]

normalizer_idle == <<self, user_id, measurements, pc, calls, filtered_measurements,
                     cleaned_measurements, smoothed_measurements, depth_corrected,
                     scaled_measurements, body_profile, validation, quality_score,
                     processing_steps, stdout, returned, landmarks, reference_points,
                     target_height, center_point, centered_coords, rotated_coords,
                     scaled_coords, normalized_landmarks>>

\* BodyCalibrationSystem(root), the calibration page shown
BodyCalibrationSystem ==
    /\ self = None
    /\ user_id = ""
    /\ measurements = <<>>
    /\ pc = ""
    /\ calls = <<>>
    /\ filtered_measurements = <<>>
    /\ cleaned_measurements = <<>>
    /\ smoothed_measurements = <<>>
    /\ depth_corrected = <<>>
    /\ scaled_measurements = <<>>
    /\ body_profile = None
    /\ validation = None
    /\ quality_score = 0
    /\ processing_steps = <<>>
    /\ stdout = <<>>
    /\ returned = None
    /\ landmarks = <<>>
    /\ reference_points = None
    /\ target_height = 1000
    /\ center_point = ""
    /\ centered_coords = <<>>
    /\ rotated_coords = <<>>
    /\ scaled_coords = <<>>
    /\ normalized_landmarks = <<>>
    /\ wall_time = 1
    /\ NoProcessor
    /\ capture_pc = "idle"
    /\ window = "open"
    /\ running = FALSE
    /\ cap = "none"
    /\ current_pose_index = 0
    /\ visible_start_time = NoTime
    /\ countdown_start_time = NoTime
    /\ calibration_data = {}
    /\ control_button = Button("normal", "start_calibration")
    /\ results = None
    /\ captures = <<>>
    /\ processed = <<>>

\* the button command of the calibration page: starts the capture thread
start_calibration ==
    /\ window = "open"
    /\ control_button = Button("normal", "start_calibration")
    /\ control_button' = Button("disabled", "start_calibration")
    /\ running' = TRUE
    /\ capture_pc' = "open_camera"
    /\ UNCHANGED <<normalizer_idle, session_vars, wall_time, window, cap,
                   current_pose_index, visible_start_time, countdown_start_time,
                   calibration_data, results, captures, processed>>

\* the button command once a calibration is finalized
reset_calibration ==
    /\ window = "open"
    /\ control_button = Button("normal", "reset_calibration")
    /\ current_pose_index' = 0
    /\ visible_start_time' = NoTime
    /\ countdown_start_time' = NoTime
    /\ calibration_data' = {}
    /\ control_button' = Button("normal", "start_calibration")
    /\ UNCHANGED <<normalizer_idle, session_vars, wall_time, capture_pc, window, running,
                   cap, results, captures, processed>>

\* on_closing, first half: app.cleanup()
cleanup ==
    /\ window = "open"
    /\ running' = FALSE
    /\ cap' = IF cap = "open" THEN "released" ELSE cap
    /\ window' = "closing"
    /\ UNCHANGED <<normalizer_idle, session_vars, wall_time, capture_pc,
                   current_pose_index, visible_start_time, countdown_start_time,
                   calibration_data, control_button, results, captures, processed>>

\* on_closing, second half: root.destroy()
destroy ==
    /\ window = "closing"
    /\ window' = "destroyed"
    /\ UNCHANGED <<normalizer_idle, session_vars, wall_time, capture_pc, running, cap,
                   current_pose_index, visible_start_time, countdown_start_time,
                   calibration_data, control_button, results, captures, processed>>

\* run_calibration_loop up to its loop: cv2.VideoCapture(0) and the isOpened test
OpenCamera ==
    /\ capture_pc = "open_camera"
    /\ \E opened \in BOOLEAN :
          IF opened
          THEN /\ cap' = "open"
               /\ capture_pc' = "loop"
               /\ UNCHANGED control_button
          ELSE /\ cap' = "failed"
               /\ IF window = "destroyed"
                  THEN capture_pc' = "dead" /\ UNCHANGED control_button
                  ELSE /\ capture_pc' = "idle"
                       /\ control_button' = Button("normal", control_button.command)
    /\ UNCHANGED <<normalizer_idle, session_vars, wall_time, window, running,
                   current_pose_index, visible_start_time, countdown_start_time,
                   calibration_data, results, captures, processed>>

\* "while self.running and self.current_pose_index < len(CalibrationConfig.POSES)"
LoopTest ==
    /\ capture_pc = "loop"
    /\ capture_pc' = IF running /\ current_pose_index < Len(POSES) THEN "frame" ELSE "finalize"
    /\ UNCHANGED <<normalizer_idle, session_vars, wall_time, window, running, cap,
                   current_pose_index, visible_start_time, countdown_start_time,
                   calibration_data, control_button, results, captures, processed>>

\* visible_start_time after the first part of handle_pose_detection, at time t
VisibleStart(ready, t) ==
    IF ready THEN (IF visible_start_time = NoTime THEN t ELSE visible_start_time) ELSE NoTime

\* countdown_start_time after the first part of handle_pose_detection, at time t
CountdownStart(ready, t) ==
    IF ready
    THEN IF /\ visible_start_time # NoTime
            /\ t - visible_start_time >= FULL_BODY_HOLD_TIME
            /\ countdown_start_time = NoTime
         THEN t
         ELSE countdown_start_time
    ELSE NoTime

\* one iteration of the loop: the read of a frame, pose detection and display,
\* handle_pose_detection, and capture_pose when the countdown is over
Frame ==
    /\ capture_pc = "frame"
    /\ \E gap \in FrameGaps, ret \in BOOLEAN, detected \in BOOLEAN, pose_ready \in BOOLEAN :
          /\ wall_time + gap <= MaxClock
          /\ ret => cap = "open"
          /\ detected => ret
          /\ pose_ready => detected
          /\ wall_time' = wall_time + gap
          /\ IF ~ret
             THEN /\ capture_pc' = "loop"
                  /\ UNCHANGED <<current_pose_index, visible_start_time, countdown_start_time,
                                 calibration_data, results, captures>>
             ELSE IF window = "destroyed"
             THEN /\ capture_pc' = "dead"
                  /\ UNCHANGED <<current_pose_index, visible_start_time, countdown_start_time,
                                 calibration_data, results, captures>>
             ELSE /\ capture_pc' = "loop"
                  /\ results' = [pose_landmarks |-> detected, pose_ready |-> pose_ready]
                  /\ LET visible == VisibleStart(pose_ready, wall_time')
                         countdown == CountdownStart(pose_ready, wall_time')
                     IN  IF countdown # NoTime /\ Remaining(wall_time' - countdown) <= 0
                         THEN /\ calibration_data' =
                                     calibration_data \cup {POSES[current_pose_index + 1]}
                              /\ captures' =
                                     Append(captures,
                                            [pose |-> POSES[current_pose_index + 1],
                                             index |-> current_pose_index,
                                             at |-> wall_time',
                                             visible_start_time |-> visible,
                                             countdown_start_time |-> countdown,
                                             results |-> results'])
                              /\ current_pose_index' = current_pose_index + 1
                              /\ visible_start_time' = NoTime
                              /\ countdown_start_time' = NoTime
                         ELSE /\ visible_start_time' = visible
                              /\ countdown_start_time' = countdown
                              /\ UNCHANGED <<current_pose_index, calibration_data, captures>>
    /\ UNCHANGED <<normalizer_idle, session_vars, window, running, cap, control_button,
                   processed>>

\* finalize_calibration up to its call of process_calibration_data
Finalize ==
    /\ capture_pc = "finalize"
    /\ running' = FALSE
    /\ cap' = "none"
    /\ \E widgets_answer \in BOOLEAN :
          /\ window = "open" => widgets_answer
          /\ window = "destroyed" => ~widgets_answer
          /\ capture_pc' = IF widgets_answer THEN "process" ELSE "dead"
    /\ UNCHANGED <<normalizer_idle, session_vars, wall_time, window, current_pose_index,
                   visible_start_time, countdown_start_time, calibration_data,
                   control_button, results, captures, processed>>

\* self.normalizer_integration.process_calibration_data(self.calibration_data) and
\* the message box
Process ==
    /\ capture_pc = "process"
    /\ processed' = Append(processed, calibration_data)
    /\ capture_pc' = IF window = "destroyed" THEN "dead" ELSE "enable_button"
    /\ UNCHANGED <<normalizer_idle, session_vars, wall_time, window, running, cap,
                   current_pose_index, visible_start_time, countdown_start_time,
                   calibration_data, control_button, results, captures>>

\* the end of finalize_calibration, and of the thread
EnableButton ==
    /\ capture_pc = "enable_button"
    /\ IF window = "destroyed"
       THEN capture_pc' = "dead" /\ UNCHANGED control_button
       ELSE /\ capture_pc' = "idle"
            /\ control_button' = Button("normal", "reset_calibration")
    /\ UNCHANGED <<normalizer_idle, session_vars, wall_time, window, running, cap,
                   current_pose_index, visible_start_time, countdown_start_time,
                   calibration_data, results, captures, processed>>

InitCapture == BodyCalibrationSystem

NextCapture ==
    \/ start_calibration
    \/ reset_calibration
    \/ cleanup
    \/ destroy
    \/ OpenCamera
    \/ LoopTest
    \/ Frame
    \/ Finalize
    \/ Process
    \/ EnableButton

SpecCapture == InitCapture /\ [][NextCapture]_vars

----------------------------------------------------------------------------
(* Properties *)

StageOrder ==
    <<"filter_by_confidence", "remove_outliers", "apply_temporal_smoothing",
      "apply_depth_correction", "apply_calibration_scaling", "create_body_profile",
      "validate_measurements", "calculate_quality_score">>

\* the caller's list taken through the five list stages, in order
RefinedPoints ==
    apply_calibration_scaling(self,
        apply_depth_correction(self,
            apply_temporal_smoothing(
                remove_outliers(self,
                    filter_by_confidence(self.min_confidence, measurements)))))

\* the method calls[k] has been made, and it did not raise
Called(k) == Len(calls) >= k /\ ~(pc = "raised" /\ Len(calls) = k)

\* C1: process_measurements calls its stages in the order confidence filter, outlier
\* removal, temporal smoothing, depth correction, calibration scaling, profile build,
\* validation; each stage is given the previous stage's output, and the profile and
\* the validation are both computed from the filtered, cleaned, smoothed,
\* depth-corrected and calibration-scaled points.
C1_FixedStageOrder ==
    /\ Len(calls) <= Len(StageOrder)
    /\ \A k \in 1..Len(calls) : calls[k].fn = StageOrder[k]
    /\ Len(calls) >= 1 => calls[1].arg = measurements
    /\ Len(calls) >= 2 => calls[2].arg = filtered_measurements
    /\ Len(calls) >= 3 => calls[3].arg = cleaned_measurements
    /\ Len(calls) >= 4 => calls[4].arg = smoothed_measurements
    /\ Len(calls) >= 5 => calls[5].arg = depth_corrected
    /\ Len(calls) >= 6 => calls[6].arg = scaled_measurements
    /\ Len(calls) >= 6 => scaled_measurements = RefinedPoints
    /\ Len(calls) >= 7 => calls[7].arg = scaled_measurements
    /\ pc = "done" =>
          /\ returned.body_profile =
                 create_body_profile(self, RefinedPoints, user_id,
                                     returned.body_profile.timestamp)
          /\ returned.report.issues = validate_measurements(self, RefinedPoints).issues

\* a run in which an outlier was removed and calibration scaling changed a value
C1_Witness ==
    /\ pc = "done"
    /\ Len(cleaned_measurements) < Len(filtered_measurements)
    /\ scaled_measurements # depth_corrected

WellFormed(ms) == \A i \in 1..Len(ms) : ms[i].depth > 0

\* C2: for every list of points with depth > 0, the empty list included,
\* process_measurements never raises and always has a next stage to run until it
\* returns; what it returns is the
\* profile it built, together with a report that carries the validation issues, also
\* when validation failed.
C2_AlwaysReturns ==
    WellFormed(measurements) =>
        /\ pc # "raised"
        /\ pc # "done" => Len(calls) < Len(StageOrder) /\ pc = StageOrder[Len(calls) + 1]
        /\ pc = "done" =>
              /\ returned.body_profile = body_profile
              /\ returned.body_profile.measurement_count = Len(scaled_measurements)
              /\ returned.report.issues = validation.issues
              /\ validation.is_valid <=> validation.issues = <<>>

\* a returned run on a non-empty list with a zero-weight point, whose validation failed
C2_Witness ==
    /\ pc = "done"
    /\ WellFormed(measurements)
    /\ \E i \in 1..Len(scaled_measurements) : scaled_measurements[i].landmarks_quality = 0
    /\ ~validation.is_valid
    /\ returned.report.issues # <<>>

CalibrationWarnings ==
    {"Warning: Calibration file not found",
     "Warning: No calibration data available for depth correction",
     "Warning: No calibration data available for scaling"}

ReportStrings(report) ==
    {report.processing_steps[i].text : i \in 1..Len(report.processing_steps)}
        \cup {report.issues[i].kind : i \in 1..Len(report.issues)}

\* C3: when no calibration table was loaded, the report returned by
\* process_measurements contains a warning that flags the missing calibration.
C3_MissingCalibrationReported ==
    (pc = "done" /\ NoCalibration(self)) =>
        ReportStrings(returned.report) \cap CalibrationWarnings # {}

TypesOf(ms) == {ms[i].measurement_type : i \in 1..Len(ms)}

ExpectedTypes == {expected_measurements[k] : k \in 1..Len(expected_measurements)}

\* C5: a profile field whose measurement type has no point among the points given to
\* the profile build is 0.0; so is, in the returned profile, the field of any type of
\* which the confidence filter and the outlier removal left no point.
C5_ProfileDefaults ==
    /\ Called(6) =>
          \A f \in ExpectedTypes : f \notin TypesOf(calls[6].arg) => body_profile[f] = 0
    /\ pc = "done" =>
          \A f \in ExpectedTypes :
              f \notin TypesOf(cleaned_measurements) => returned.body_profile[f] = 0

\* a returned profile with a type that was measured but did not survive
C5_Witness ==
    /\ pc = "done"
    /\ \E f \in ExpectedTypes :
          /\ f \in TypesOf(measurements)
          /\ f \notin TypesOf(cleaned_measurements)
          /\ returned.body_profile[f] = 0

ConfidenceLevels == 0..10

KeptIndices(ms, threshold) == {i \in 1..Len(ms) : ms[i].confidence >= threshold}

\* the j-th smallest element of a set of indices
NthOf(K, j) == CHOOSE i \in K : Cardinality({k \in K : k < i}) = j - 1

\* C6: filter_by_confidence returns exactly the input points with
\* confidence >= min_confidence, in input order, and a higher threshold never gives a
\* longer output for the same input.
C6_ConfidenceFilter ==
    Called(1) =>
        LET input == calls[1].arg
            K == KeptIndices(input, self.min_confidence)
        IN  /\ Len(filtered_measurements) = Cardinality(K)
            /\ \A j \in 1..Len(filtered_measurements) :
                   filtered_measurements[j] = input[NthOf(K, j)]
            /\ \A t1, t2 \in ConfidenceLevels :
                   t1 <= t2 => Len(filter_by_confidence(t2, input))
                                   <= Len(filter_by_confidence(t1, input))

\* the filter kept a point at exactly the threshold and dropped another
C6_Witness ==
    /\ Called(1)
    /\ \E j \in 1..Len(filtered_measurements) :
          filtered_measurements[j].confidence = self.min_confidence
    /\ Len(filtered_measurements) < Len(measurements)

\* sum of (x_j - x_k)^2 over the pairs j < k: n^2 times the population variance
PairwiseSquares(values) ==
    LET n == Len(values)
        Row[j \in 0..n] ==
            IF j = 0 THEN 0
            ELSE Row[j - 1]
                   + SumSeq([k \in 1..(j - 1) |-> (values[j] - values[k]) * (values[j] - values[k])])
    IN  Row[n]

\* |z| <= threshold for the i-th of the values, z being its population Z-score among
\* them; false when the values have no spread, as no Z-score exists then
WithinZ(values, i, threshold) ==
    LET offset == SumSeq([k \in 1..Len(values) |-> values[i] - values[k]])
    IN  /\ PairwiseSquares(values) > 0
        /\ threshold.den * threshold.den * offset * offset
              <= threshold.num * threshold.num * PairwiseSquares(values)

\* the members of a sequence at a set of indices, in order
At(s, K) == [j \in 1..Cardinality(K) |-> s[NthOf(K, j)]]

\* what the group rule of remove_outliers leaves of the type t in a list
GroupRule(input, output, t, threshold) ==
    LET group == grouped(input, t)
        within == {i \in 1..Len(group) : WithinZ(Values(group), i, threshold)}
    IN  /\ Len(group) < 3 => grouped(output, t) = group
        /\ Len(group) >= 3 => grouped(output, t) = At(group, within)

\* C7 (as claimed): whatever the number of input points, remove_outliers passes
\* through every group of fewer than 3 members and keeps, of a group of 3 or more,
\* exactly the points whose absolute population Z-score within the group is <= the
\* threshold.
C7_GroupRuleAlways ==
    Called(2) =>
        /\ TypesOf(cleaned_measurements) \subseteq TypesOf(calls[2].arg)
        /\ \A t \in TypesOf(calls[2].arg) :
               GroupRule(calls[2].arg, cleaned_measurements, t, self.outlier_threshold)

\* C7 (amended): the group rule holds when the input has at least min_samples
\* points; a shorter input is returned unchanged, outliers included.
C7_GroupRuleFromMinSamples ==
    Called(2) =>
        /\ TypesOf(cleaned_measurements) \subseteq TypesOf(calls[2].arg)
        /\ Len(calls[2].arg) >= self.min_samples =>
               \A t \in TypesOf(calls[2].arg) :
                   GroupRule(calls[2].arg, cleaned_measurements, t, self.outlier_threshold)
        /\ Len(calls[2].arg) < self.min_samples => cleaned_measurements = calls[2].arg

\* a point of a group of 3 or more was removed while a group of fewer than 3 passed
C7_Witness ==
    /\ Called(2)
    /\ Len(calls[2].arg) >= self.min_samples
    /\ \E t \in TypesOf(calls[2].arg) :
          /\ Len(grouped(calls[2].arg, t)) >= 3
          /\ Len(grouped(cleaned_measurements, t)) \in 1..(Len(grouped(calls[2].arg, t)) - 1)
    /\ \E t \in TypesOf(calls[2].arg) :
          /\ Len(grouped(calls[2].arg, t)) < 3
          /\ grouped(cleaned_measurements, t) = grouped(calls[2].arg, t)

\* the input of remove_outliers is one group, filtered at Z threshold 2.5
SingleGroupAtDefault ==
    /\ Called(2)
    /\ Cardinality(TypesOf(calls[2].arg)) = 1
    /\ self.outlier_threshold = DefaultThreshold
    /\ Len(calls[2].arg) >= self.min_samples

CountOf(values, v) == Cardinality({i \in 1..Len(values) : values[i] = v})

\* the value at index i lies more than 5 standard deviations of the values at the
\* indices C away from their mean
BeyondFiveSigma(values, C, i) ==
    LET n == Cardinality(C)
        cluster == At(values, C)
        offset == SumSeq([k \in 1..n |-> values[i] - cluster[k]])
    IN  offset * offset > 25 * PairwiseSquares(cluster)

\* the values at the indices C lie within 1 unit (a tenth) of each other
TightlyClustered(values, C) == \A i, j \in C : values[i] - values[j] \in -10..10

C4_QualityScoreBounds ==
    /\ calculate_quality_score(measurements) \in 0..10000
    /\ calculate_quality_score(<<>>) = 0
    /\ Called(6) =>
          /\ body_profile.calibration_quality \in 0..10000
          /\ scaled_measurements = <<>> => body_profile.calibration_quality = 0
    /\ pc = "done" =>
          /\ returned.report.quality_score \in 0..10000
          /\ returned.body_profile.calibration_quality \in 0..10000
          /\ scaled_measurements = <<>> => returned.report.quality_score = 0

\* a call with more than six types whose weighted score exceeds 10 returned 10
C4_Witness ==
    /\ pc = "done"
    /\ Cardinality(TypesOf(scaled_measurements)) > 6
    /\ FinalScore(scaled_measurements) > 10000
    /\ returned.report.quality_score = 10000
    /\ returned.body_profile.calibration_quality = 10000

\* a point without its value
Unvalued(m) == [m EXCEPT !.value = 0]

Occurrences(ms, p) == Cardinality({j \in 1..Len(ms) : Unvalued(ms[j]) = p})

\* C9: apply_temporal_smoothing returns as many points as it is given, and the
\* output points match the input points one to one on timestamp, measurement_type,
\* confidence, depth, frame_id and landmarks_quality (so the multiset of types is
\* kept): only value may differ.
C9_SmoothingKeepsPoints ==
    Called(3) =>
        /\ Len(smoothed_measurements) = Len(calls[3].arg)
        /\ \A i \in 1..Len(calls[3].arg) :
               Occurrences(smoothed_measurements, Unvalued(calls[3].arg[i]))
                  = Occurrences(calls[3].arg, Unvalued(calls[3].arg[i]))
        /\ \A t \in TypesOf(calls[3].arg) :
               Len(grouped(smoothed_measurements, t)) = Len(grouped(calls[3].arg, t))

\* smoothing changed a value of a list with two types
C9_Witness ==
    /\ Called(3)
    /\ Cardinality(TypesOf(calls[3].arg)) = 2
    /\ \E i \in 1..Len(calls[3].arg) :
          \A j \in 1..Len(smoothed_measurements) : smoothed_measurements[j] # calls[3].arg[i]

\* position of the i-th member of a group once the group is ordered by timestamp,
\* members with one timestamp staying in their order
Rank(group, i) ==
    1 + Cardinality({j \in 1..Len(group) :
                        \/ group[j].timestamp < group[i].timestamp
                        \/ group[j].timestamp = group[i].timestamp /\ j < i})

\* the average over the members at most w // 2 positions away from the i-th
WindowAverage(group, i) ==
    LET w == Min(5, Len(group))
        near == {j \in 1..Len(group) : Rank(group, j) - Rank(group, i) \in -(w \div 2)..(w \div 2)}
        weight(j) == group[j].confidence * group[j].landmarks_quality
        total == SumSeq([j \in 1..Len(group) |-> IF j \in near THEN weight(j) ELSE 0])
    IN  IF total > 0
        THEN SumSeq([j \in 1..Len(group) |->
                        IF j \in near THEN weight(j) * group[j].value ELSE 0]) \div total
        ELSE SumSeq([j \in 1..Len(group) |-> IF j \in near THEN group[j].value ELSE 0])
                \div Cardinality(near)

\* C10: in a group of 3 or more, ordered by timestamp, the smoothed value at index i
\* is the average of the values at the indices i - w//2 .. i + w//2 within the group,
\* w = min(5, group size), weighted by confidence * landmarks_quality, or their plain
\* mean when those weights sum to 0; a group of fewer than 3 keeps its values.
C10_WindowedAverage ==
    Called(3) =>
        \A t \in TypesOf(calls[3].arg) :
            LET group == grouped(calls[3].arg, t)
                smoothed == grouped(smoothed_measurements, t)
            IN  /\ Len(smoothed) = Len(group)
                /\ Len(group) < 3 => smoothed = group
                /\ Len(group) >= 3 =>
                       \A i \in 1..Len(group) :
                           smoothed[Rank(group, i)]
                              = [group[i] EXCEPT !.value = WindowAverage(group, i)]

\* a group of 5 or more, given out of timestamp order, with a window whose weights
\* sum to 0 and one whose weights do not, was smoothed
C10_Witness ==
    /\ Called(3)
    /\ \E t \in TypesOf(calls[3].arg) :
          LET group == grouped(calls[3].arg, t)
          IN  /\ Len(group) >= 5
              /\ \E i \in 1..Len(group) : Rank(group, i) # i
              /\ \E i \in 1..Len(group) :
                    WindowAverage(group, i) # group[i].value
              /\ \E i \in 1..Len(group) : group[i].landmarks_quality = 0
              /\ \E i \in 1..Len(group) : group[i].landmarks_quality > 0
              /\ grouped(smoothed_measurements, t) # group

\* the table has the key
HasKey(table, key) == key \in DOMAIN table

\* two lists differ at most in the values of their points, point by point
SameButValues(before, after) ==
    /\ Len(after) = Len(before)
    /\ \A i \in 1..Len(before) : Unvalued(after[i]) = Unvalued(before[i])

\* C11: with a calibration table loaded, apply_depth_correction returns one point
\* per input point, in order, with value * reference_depth / depth as its value
\* (reference_depth 2.0 when the table has none) and the other six fields kept.
C11_DepthCorrection ==
    (Called(4) /\ self.calibration_data # EmptyDict) =>
        LET reference_depth ==
                IF HasKey(self.calibration_data, "reference_depth")
                THEN self.calibration_data.reference_depth ELSE 20
        IN  /\ SameButValues(calls[4].arg, depth_corrected)
            /\ \A i \in 1..Len(depth_corrected) :
                   depth_corrected[i].value
                      = (calls[4].arg[i].value * reference_depth) \div calls[4].arg[i].depth

\* two points at depths other than the reference depth were corrected
C11_Witness ==
    /\ Called(4)
    /\ HasKey(self.calibration_data, "reference_depth")
    /\ Len(depth_corrected) >= 2
    /\ \E i, j \in 1..Len(depth_corrected) :
          /\ calls[4].arg[i].depth < self.calibration_data.reference_depth
          /\ depth_corrected[i].value > calls[4].arg[i].value
          /\ calls[4].arg[j].depth > self.calibration_data.reference_depth
          /\ depth_corrected[j].value < calls[4].arg[j].value

\* C12: with a calibration table loaded, apply_calibration_scaling returns one point
\* per input point, in order, with the value times the table's factor for the
\* point's type (1.0 when the type has no entry) and the other six fields kept.
C12_CalibrationScaling ==
    (Called(5) /\ self.calibration_data # EmptyDict) =>
        /\ SameButValues(calls[5].arg, scaled_measurements)
        /\ \A i \in 1..Len(scaled_measurements) :
               LET m == calls[5].arg[i]
                   known == /\ HasKey(self.calibration_data, "scaling_factors")
                            /\ HasKey(self.calibration_data.scaling_factors, m.measurement_type)
                   factor == IF known
                             THEN self.calibration_data.scaling_factors[m.measurement_type]
                             ELSE 10
               IN  scaled_measurements[i].value = (m.value * factor) \div 10

\* a point of a type with a factor was rescaled next to one of a type without
C12_Witness ==
    /\ Called(5)
    /\ HasKey(self.calibration_data, "scaling_factors")
    /\ \E i, j \in 1..Len(scaled_measurements) :
          /\ HasKey(self.calibration_data.scaling_factors, calls[5].arg[i].measurement_type)
          /\ scaled_measurements[i].value # calls[5].arg[i].value
          /\ ~HasKey(self.calibration_data.scaling_factors, calls[5].arg[j].measurement_type)
          /\ scaled_measurements[j].value = calls[5].arg[j].value
          /\ calls[5].arg[j].value > 0

\* C13 (as claimed): with no table, or with a table that lacks reference_depth,
\* depth correction leaves every value as it was; with no table, or with a table
\* that lacks scaling_factors, calibration scaling does.
C13_MissingKeyIsNoOp ==
    /\ (Len(calls) >= 4 /\ ~HasKey(self.calibration_data, "reference_depth")) =>
           /\ pc # "raised"
           /\ Called(4) => depth_corrected = calls[4].arg
    /\ (Called(5) /\ ~HasKey(self.calibration_data, "scaling_factors")) =>
           scaled_measurements = calls[5].arg

\* C13 (amended): with no table (no file, or an empty one) both corrections return
\* their input whatever the depths; a table without scaling_factors makes calibration
\* scaling return the input values; a non-empty table without reference_depth makes
\* depth correction multiply by 2.0 / depth, which fails on a depth of 0.
C13_MissingTableIsNoOp ==
    /\ (Len(calls) >= 4 /\ self.calibration_data = EmptyDict) =>
           /\ pc # "raised"
           /\ Called(4) => depth_corrected = calls[4].arg
    /\ (Called(5) /\ ~HasKey(self.calibration_data, "scaling_factors")) =>
           scaled_measurements = calls[5].arg
    /\ (Len(calls) >= 4 /\ self.calibration_data # EmptyDict
           /\ ~HasKey(self.calibration_data, "reference_depth")) =>
           /\ (pc = "raised" /\ Len(calls) = 4) <=>
                  (Len(calls) = 4 /\ \E i \in 1..Len(calls[4].arg) : calls[4].arg[i].depth = 0)
           /\ Called(4) =>
                  \A i \in 1..Len(depth_corrected) :
                      depth_corrected[i].value
                         = (calls[4].arg[i].value * 20) \div calls[4].arg[i].depth

\* without a table a list with a point at depth 0 went through both corrections
C13_Witness ==
    /\ Called(5)
    /\ self.calibration_data = EmptyDict
    /\ \E i \in 1..Len(calls[4].arg) : calls[4].arg[i].depth = 0
    /\ \E i \in 1..Len(calls[4].arg) : calls[4].arg[i].depth \notin {0, 20}
    /\ scaled_measurements = calls[4].arg

\* the six measurement types a BodyProfile has a field for
KnownTypes == {expected_measurements[k] : k \in 1..Len(expected_measurements)}

\* what a point adds to a sum: its weight, its weight times its value, its value, or 1
Term(m, what) ==
    CASE what = "weight"   -> m.confidence * m.landmarks_quality
      [] what = "weighted" -> m.confidence * m.landmarks_quality * m.value
      [] what = "value"    -> m.value
      [] what = "one"      -> 1

\* sum of a term over the points of type t
TypeSum(ms, t, what) ==
    SumSeq([i \in 1..Len(ms) |-> IF ms[i].measurement_type = t THEN Term(ms[i], what) ELSE 0])

\* C14: for each of the six known types with a point in the build input the profile
\* field is the average of the type's values weighted by confidence *
\* landmarks_quality, or their plain mean when those weights sum to 0; points of
\* other types change none of the six fields.
C14_ProfileAverages ==
    Called(6) =>
        LET input == calls[6].arg
            known == SelectSeq(input, LAMBDA m : m.measurement_type \in KnownTypes)
        IN  /\ \A t \in KnownTypes \cap TypesOf(input) :
                   body_profile[t] =
                       IF TypeSum(input, t, "weight") > 0
                       THEN TypeSum(input, t, "weighted") \div TypeSum(input, t, "weight")
                       ELSE TypeSum(input, t, "value") \div TypeSum(input, t, "one")
            /\ \A t \in KnownTypes :
                   body_profile[t] = create_body_profile(self, known, user_id, 0)[t]

\* a profile built from heights of unequal weight, a hip width of weight 0 and a
\* point of a type outside the six
C14_Witness ==
    /\ Called(6)
    /\ TypesOf(calls[6].arg) \ KnownTypes # {}
    /\ TypeSum(calls[6].arg, "hip_width", "one") > 0
    /\ TypeSum(calls[6].arg, "hip_width", "weight") = 0
    /\ body_profile.hip_width > 0
    /\ TypeSum(calls[6].arg, "height", "weight") > 0
    /\ body_profile.height
          # TypeSum(calls[6].arg, "height", "value") \div TypeSum(calls[6].arg, "height", "one")

\* C15: measurement_count of the profile is the number of points given to the
\* profile build, equals final_count of the report and is at most initial_count;
\* the count may drop in the confidence filter and in outlier removal and is kept by
\* smoothing, depth correction and calibration scaling.
C15_Counts ==
    /\ Called(1) => Len(filtered_measurements) <= Len(calls[1].arg)
    /\ Called(2) => Len(cleaned_measurements) <= Len(calls[2].arg)
    /\ Called(3) => Len(smoothed_measurements) = Len(calls[3].arg)
    /\ Called(4) => Len(depth_corrected) = Len(calls[4].arg)
    /\ Called(5) => Len(scaled_measurements) = Len(calls[5].arg)
    /\ Called(6) => body_profile.measurement_count = Len(calls[6].arg)
    /\ pc = "done" =>
          /\ returned.body_profile.measurement_count = Len(calls[6].arg)
          /\ returned.report.final_count = returned.body_profile.measurement_count
          /\ returned.report.initial_count = Len(measurements)
          /\ returned.report.final_count <= returned.report.initial_count

\* a call returned after outlier removal dropped a point and smoothing changed a value
C15_Witness ==
    /\ pc = "done"
    /\ Len(cleaned_measurements) < Len(filtered_measurements)
    /\ returned.report.final_count \in 1..(returned.report.initial_count - 1)
    /\ returned.body_profile.measurement_count = returned.report.final_count

\* the ranges of the six types, in tenths of a centimetre
RangeOf(t) ==
    CASE t = "height"         -> [low |-> 1400, high |-> 2200]
      [] t = "shoulder_width" -> [low |-> 300,  high |-> 700]
      [] t = "torso_length"   -> [low |-> 400,  high |-> 800]
      [] t = "arm_length"     -> [low |-> 500,  high |-> 900]
      [] t = "leg_length"     -> [low |-> 600,  high |-> 1200]
      [] t = "hip_width"      -> [low |-> 250,  high |-> 600]

\* the mean of the values of type t lies below the lower or above the upper bound
MeanOutside(ms, t) ==
    \/ TypeSum(ms, t, "value") < RangeOf(t).low * TypeSum(ms, t, "one")
    \/ TypeSum(ms, t, "value") > RangeOf(t).high * TypeSum(ms, t, "one")

RangeFlagged(issues, t) ==
    \E k \in 1..Len(issues) :
        issues[k].kind = "out of reasonable range" /\ issues[k].measurement_type = t

\* C16: validate_measurements flags a type as out of range if and only if it is one
\* of the six with a range, has a point, and the plain mean of its values is below
\* the lower or above the upper bound (a mean on a bound is in range); is_valid is
\* true if and only if no issue is returned.
C16_RangeIssues ==
    Called(7) =>
        /\ \A t \in KnownTypes \cup TypesOf(calls[7].arg) :
               RangeFlagged(validation.issues, t) <=>
                   /\ t \in KnownTypes
                   /\ TypeSum(calls[7].arg, t, "one") >= 1
                   /\ MeanOutside(calls[7].arg, t)
        /\ \A k \in 1..Len(validation.issues) :
               validation.issues[k].kind = "out of reasonable range" =>
                   validation.issues[k].measurement_type \in KnownTypes
        /\ validation.is_valid <=> validation.issues = <<>>

\* a height on its lower bound passed, a hip width above its upper bound was flagged,
\* a type without a range was left alone
C16_Witness ==
    /\ Called(7)
    /\ TypeSum(calls[7].arg, "height", "one") >= 1
    /\ TypeSum(calls[7].arg, "height", "value") = 1400 * TypeSum(calls[7].arg, "height", "one")
    /\ ~RangeFlagged(validation.issues, "height")
    /\ RangeFlagged(validation.issues, "hip_width")
    /\ "neck_width" \in TypesOf(calls[7].arg)
    /\ ~validation.is_valid

InsufficientFlagged(issues) ==
    \E k \in 1..Len(issues) : issues[k].kind = "Insufficient data"

\* C17: validation reports insufficient data if and only if fewer than min_samples
\* points are left after the confidence filter and outlier removal; the call then
\* goes on to return a profile whose fields without a measurement are 0.
C17_InsufficientData ==
    Called(7) =>
        /\ InsufficientFlagged(validation.issues) <=>
               Len(cleaned_measurements) < self.min_samples
        /\ InsufficientFlagged(validation.issues) =>
               /\ ~validation.is_valid
               /\ pc \in {"calculate_quality_score", "done"}
               /\ pc = "done" =>
                      /\ InsufficientFlagged(returned.report.issues)
                      /\ \A t \in KnownTypes \ TypesOf(cleaned_measurements) :
                             returned.body_profile[t] = 0

\* a call with too few points left returned a profile with a measured and an
\* unmeasured field
C17_Witness ==
    /\ pc = "done"
    /\ InsufficientFlagged(returned.report.issues)
    /\ Len(cleaned_measurements) \in 1..(self.min_samples - 1)
    /\ returned.body_profile.height > 0
    /\ returned.body_profile.hip_width = 0

\* C18 (as claimed): the first five lines of processing_steps are those of the
\* confidence filter, outlier removal, temporal smoothing, depth correction and
\* calibration scaling, in that order, each with the output count and the input
\* count of its step.
C18_StepCountsRecorded ==
    pc = "done" =>
        /\ Len(returned.report.processing_steps) >= 5
        /\ \A k \in 1..5 :
               returned.report.processing_steps[k].counts
                  = <<Len(calls[k + 1].arg), Len(calls[k].arg)>>

\* the six measurement fields of a profile
ProfileMeasurements(profile) == [t \in KnownTypes |-> profile[t]]

C20_ReturnsTriples ==
    (pc \in {"done", "raised"} /\ Len(landmarks) >= 2 /\ Dim(landmarks) = 3) =>
        /\ pc = "done"
        /\ Len(normalized_landmarks) = Len(landmarks)
        /\ \A i \in 1..Len(landmarks) : Len(normalized_landmarks[i]) = 3

\* C21 (as claimed): a call of normalize_landmarks on (x, y, z) points never raises;
\* with fewer than 2 points it returns its input, and with 2 or more it runs to its
\* return, skipping the steps whose indices are out of range.
C21_NeverRaises ==
    Dim(landmarks) \in {0, 3} =>
        /\ pc # "raised"
        /\ (pc = "done" /\ Len(landmarks) < 2) => normalized_landmarks = landmarks
        /\ (pc = "conversion" /\ ~ShouldersInRange(landmarks, ReferencePoints(reference_points)))
               => ~ConversionRaises(scaled_coords)

\* the rotation step of a call with both shoulder indices in range is over
RotationOver ==
    /\ Len(landmarks) >= 2
    /\ centered_coords # <<>>
    /\ pc \in {"scaling", "conversion", "done", "raised"}
    /\ ShouldersInRange(landmarks, ReferencePoints(reference_points))

\* the shoulder line of the coordinates is within 10 degrees of the horizontal:
\* |dy| < tan(10 degrees) * dx, tan(10 degrees) being 0.176
NearlyHorizontal(coords, refs) ==
    LET v == ShoulderVector(coords, refs)
    IN  v[1] > 0 /\ 1000 * Abs(v[2]) < 176 * v[1]

\* C22 (as claimed): when both shoulder indices are in range the rotation step gives
\* one rotated point per centered point, with the z the point had after centering, and
\* the left-to-right shoulder vector of the result has a y-difference of zero (2
\* thousandths at most, for the rounding of the fixed-point rotation); the landmarks
\* tilted by 30 degrees come out with a shoulder line within 10 degrees of horizontal.
C22_RotationKeepsZ ==
    RotationOver =>
        /\ Len(rotated_coords) = Len(centered_coords)
        /\ \A i \in 1..Len(centered_coords) :
               /\ Len(rotated_coords[i]) = Len(centered_coords[i])
               /\ Dim(centered_coords) = 3 => rotated_coords[i][3] = centered_coords[i][3]
        /\ Abs(ShoulderVector(rotated_coords, ReferencePoints(reference_points))[2]) <= 2
        /\ landmarks = TiltedLandmarks =>
               NearlyHorizontal(rotated_coords, ReferencePoints(reference_points))

\* idx designates a position of the sequence, counted from the start or from the end
Designates(coords, idx) == idx \in (-Len(coords))..(Len(coords) - 1)

\* the center as claimed: the named point, the midpoint of the pair, or the centroid
\* whenever a needed index designates no position
ClaimedCenter(coords, refs, center) ==
    IF center # "" /\ center \in DOMAIN refs
    THEN IF Designates(coords, refs[center]) THEN Coord(coords, refs[center])
         ELSE Centroid(coords)
    ELSE IF center \in {"chest", "hip"}
            /\ Designates(coords, PairOf(refs, center)[1])
            /\ Designates(coords, PairOf(refs, center)[2])
         THEN Midpoint(coords, PairOf(refs, center)[1], PairOf(refs, center)[2])
         ELSE Centroid(coords)

\* C23 (as claimed): the centering step of a call on 2 or more points subtracts from
\* every point the named point, the shoulder or hip midpoint, or the centroid, and
\* reads the sequence at an index only when the index designates one of its
\* positions; an index that designates none gives the centroid.
C23_CenteringRule ==
    (Len(landmarks) >= 2 /\ pc # "normalize_landmarks") =>
        LET refs == ReferencePoints(reference_points)
            center == ClaimedCenter(landmarks, refs, center_point)
        IN  /\ Len(centered_coords) = Len(landmarks)
            /\ \A i \in 1..Len(landmarks) :
                   \A k \in 1..Dim(landmarks) :
                       centered_coords[i][k] = landmarks[i][k] - center[k]

\* the largest member of a non-empty set of integers
MaxOf(S) == CHOOSE y \in S : \A z \in S : z <= y

MinOf(S) == CHOOSE y \in S : \A z \in S : y <= z

\* the current height as claimed, of coordinates the scaling step can read
ClaimedHeight(coords, refs) ==
    LET nose_idx == Get(refs, "nose", 0)
        ankles == {idx \in {Get(refs, "left_ankle", 27), Get(refs, "right_ankle", 28)} :
                      InRange(coords, idx)}
        ys == {coords[i][2] : i \in 1..Len(coords)}
    IN  IF InRange(coords, nose_idx)
        THEN LET nose_y == Coord(coords, nose_idx)[2]
             IN  IF ankles # {}
                 THEN Abs(nose_y - MaxOf({Coord(coords, idx)[2] : idx \in ankles}))
                 ELSE MaxOf({Abs(y - nose_y) : y \in ys})
        ELSE MaxOf(ys) - MinOf(ys)

\* the scaling step of the call is over
ScalingOver == scaled_coords # <<>> /\ pc \in {"conversion", "done", "raised"}

ScalingSkippedAtZeroHeight ==
    /\ ScalingOver
    /\ ClaimedHeight(rotated_coords, ReferencePoints(reference_points)) = 0
    /\ scaled_coords = rotated_coords

\* C28 (as claimed): for every Z threshold >= 1, every measurement type with a point
\* in the input of remove_outliers has a point in its output, groups of equal values
\* included.
C28_NoGroupEliminated ==
    (Called(2) /\ self.outlier_threshold.num >= self.outlier_threshold.den) =>
        TypesOf(calls[2].arg) \subseteq TypesOf(cleaned_measurements)

\* the values of the type t among the points
ValuesOfType(ms, t) == {ms[i].value : i \in {j \in 1..Len(ms) : ms[j].measurement_type = t}}

\* confidence and landmarks_quality of every point are in [0, 1] (in tenths)
UnitWeights(ms) ==
    \A i \in 1..Len(ms) : ms[i].confidence \in 0..10 /\ ms[i].landmarks_quality \in 0..10

\* C29: with confidences and landmarks_quality in [0, 1], every value that
\* apply_temporal_smoothing produces lies between the smallest and the largest input
\* value of its measurement type, so non-negative inputs give non-negative outputs.
C29_SmoothedWithinRange ==
    (Called(3) /\ UnitWeights(calls[3].arg)) =>
        /\ \A j \in 1..Len(smoothed_measurements) :
               LET m == smoothed_measurements[j]
                   inputs == ValuesOfType(calls[3].arg, m.measurement_type)
               IN  /\ inputs # {}
                   /\ m.value >= MinOf(inputs)
                   /\ m.value <= MaxOf(inputs)
        /\ (\A i \in 1..Len(calls[3].arg) : calls[3].arg[i].value >= 0) =>
               \A j \in 1..Len(smoothed_measurements) : smoothed_measurements[j].value >= 0

\* a group of 3 or more with different values and different weights was smoothed to
\* values strictly inside the range of its input values
C29_Witness ==
    /\ Called(3)
    /\ UnitWeights(calls[3].arg)
    /\ \E t \in TypesOf(calls[3].arg) :
          LET group == grouped(calls[3].arg, t)
              inputs == ValuesOfType(calls[3].arg, t)
          IN  /\ Len(group) >= 3
              /\ Cardinality(inputs) >= 2
              /\ Cardinality({Weights(group)[i] : i \in 1..Len(group)}) >= 2
              /\ \E j \in 1..Len(smoothed_measurements) :
                    /\ smoothed_measurements[j].measurement_type = t
                    /\ smoothed_measurements[j].value > MinOf(inputs)
                    /\ smoothed_measurements[j].value < MaxOf(inputs)
                    /\ smoothed_measurements[j].value \notin inputs

\* C30: when process_measurements returns, calibration_quality of the profile equals
\* quality_score of the report; both are calculate_quality_score of the
\* calibration-scaled points, the arguments of the two calls being that same list.
C30_QualityOutputsAgree ==
    pc = "done" =>
        /\ returned.body_profile.calibration_quality = returned.report.quality_score
        /\ returned.report.quality_score = calculate_quality_score(scaled_measurements)
        /\ calls[6].arg = scaled_measurements
        /\ calls[8].fn = "calculate_quality_score"
        /\ calls[8].arg = scaled_measurements

\* a call under a calibration table that scaled the points, after the filter had
\* dropped a point, returned a profile and a report with one score above 0
C30_Witness ==
    /\ pc = "done"
    /\ ~NoCalibration(self)
    /\ Len(scaled_measurements) \in 1..(Len(measurements) - 1)
    /\ scaled_measurements # depth_corrected
    /\ returned.report.quality_score > 0
    /\ returned.report.quality_score # calculate_quality_score(measurements)
    /\ returned.body_profile.calibration_quality = returned.report.quality_score

\* C27 (as claimed): end_scanning_session hands to process_measurements only points
\* that were appended to the buffer while scanning_active was True; when it returns,
\* the buffer is empty and scanning_active is False; on an empty buffer it returns
\* (None, {}) and runs no stage of the pipeline.
C27_SessionDiscipline ==
    /\ [](session_pc = "end_scanning_session" =>
             /\ measurements = measurement_buffer
             /\ \A i \in 1..Len(collected_active) : collected_active[i])
    /\ [][(end_scanning_session /\ measurement_buffer = <<>>)
              => /\ session_pc' = "ready"
                 /\ session_returned' = [body_profile |-> None, report |-> EmptyDict]
                 /\ UNCHANGED <<pc, calls, measurement_buffer>>]_vars
    /\ [][(session_pc = "end_scanning_session" /\ session_pc' = "ready")
              => (measurement_buffer' = <<>> /\ ~scanning_active')]_vars

AllPoses == {POSES[k] : k \in 1..Len(POSES)}

\* C25 (as claimed): under every interleaving of the capture thread with the
\* commands of the Tk thread, finalize_calibration runs, and hands calibration_data to
\* process_calibration_data, only once every configured pose has been captured.
C25_OnlyCompleteBatches ==
    /\ capture_pc \in {"finalize", "process", "enable_button"} =>
          /\ current_pose_index = Len(POSES)
          /\ calibration_data = AllPoses
    /\ \A i \in 1..Len(processed) : processed[i] = AllPoses

\* C26 (as claimed): a pose is captured only on a frame with landmarks that is
\* pose-ready, after the condition has held for at least FULL_BODY_HOLD_TIME and the
\* countdown has then run for at least COUNTDOWN_TIME (10 seconds); a processed frame
\* that is not pose-ready leaves both timers unset; each capture advances
\* current_pose_index by exactly one.
C26_CaptureTiming ==
    /\ [](/\ \A i \in 1..Len(captures) :
                LET c == captures[i]
                IN  /\ c.results.pose_landmarks
                    /\ c.results.pose_ready
                    /\ c.visible_start_time # NoTime
                    /\ c.countdown_start_time - c.visible_start_time >= FULL_BODY_HOLD_TIME
                    /\ c.at - c.countdown_start_time >= COUNTDOWN_TIME
          /\ (results # None /\ ~results.pose_ready) =>
                (visible_start_time = NoTime /\ countdown_start_time = NoTime))
    /\ [][captures' # captures =>
              /\ Len(captures') = Len(captures) + 1
              /\ current_pose_index' = current_pose_index + 1]_vars

====
